---- MODULE Spec2Model ----
(***************************************************************************)
(* Model of the tqsdk_broker_connect bridge.                               *)
(*                                                                         *)
(*  - the dual-loop skeleton AioPikaTqApiService (shared/                  *)
(*    aiopika_tqapi_base.py): Bus Loop, Worker Loop, heartbeat, shutdown   *)
(*  - the blocking consumer RabbitMQConsumer (shared/rabbitmq_client.py)   *)
(*    hosting the Order Submitter (services/tq_order_submitter)            *)
(*  - the legacy single-process client (main.py, tqsdk_client/)            *)
(*                                                                         *)
(* Time is the Asia/Shanghai time of day in seconds since midnight.        *)
(***************************************************************************)
EXTENDS Integers, Sequences, FiniteSets, TLC

(***************************************************************************)
(* Bounds of the model.                                                    *)
(***************************************************************************)
\* messages the upstream publishes to the blocking consumer
MaxPublish == 1
\* deliveries of one message to the blocking consumer
MaxRedeliver == 2
\* messages the bus delivers to the Bus Loop of the dual-loop skeleton
MaxDeliver == 2
\* volume of an order request
MaxVolume == 2
\* drains the Worker Loop starts
MaxDrains == 5
\* messages the bus delivers beyond the capacity of the hand-off queue
MaxOverflow == 1
\* drains the Worker Loop starts while the queue is near its capacity
MaxBurstDrains == 1
\* order messages the legacy executor receives
MaxLegacyOrders == 3
\* lots on one side (today or historical) of a cached position
MaxQty == 2
\* last second of wall-clock time the reconciler is followed to
MaxClock == 20
\* lots the broker account holds of one symbol
MaxHeld == 1
\* lots of an order the monitors watch
MaxOrderVolume == 1
\* filled quantity of an order_history row or of an update to it
MaxFilled == 3
\* rows of the order_event table
MaxEvents == 3
\* deliveries the Handler's consumer answers
MaxHandled == 2
\* messages the bus delivers while the life of the process is followed
MaxLifeDeliver == 1
\* drains of the Worker Loop while the life of the process is followed
MaxLifeDrains == 4
\* messages the Order Canceller's worker dispatches
MaxCancels == 2
\* seconds the Order Canceller's clock runs
MaxCancelClock == 3
\* lots a side of a monitored position holds at most
MaxNet == 1
\* greatest amount of an account field, in units of 0.01
MaxAmount == 2

(***************************************************************************)
(* Program constants.                                                      *)
(***************************************************************************)
ORDER_EXPIRE_ALLOW_MAX == 5
SESSION_END_BUFFER_SECONDS == 15
block_counter_max == 3
QueueMaxSize == 100
POSITION_TTL == 15
POSITION_LOOP_INTERVAL_SECONDS == 5
CANCEL_ALL_TIMEOUT == 1

\* None for an optional integer field (a missing 'timestamp')
NoneValue == -1

(***************************************************************************)
(* The clock: times of day (seconds since midnight) around the session     *)
(* boundaries: 08:59:59, 09:00:00, 10:14:44, 10:14:45, 10:15:00,           *)
(* 10:15:30, 10:16:00, 11:29:44, 12:00:00, 15:00:00.                       *)
(***************************************************************************)
ClockSamples ==
    { 32399, 32400, 36884, 36885, 36900, 36930, 36960, 41384, 43200, 54000 }

\* the times of day the Worker Loop is observed at: 10:15:30 (the minute
\* 10:15 still counts as trading), 10:16:00 (break), 10:30:00 (trading)
WorkerClockSamples == { 36930, 36960, 37800 }

\* sessions (start, end) in seconds from midnight
sessions ==
    << [start |-> 9 * 3600,            end |-> 10 * 3600 + 15 * 60],
       [start |-> 10 * 3600 + 30 * 60, end |-> 11 * 3600 + 30 * 60],
       [start |-> 13 * 3600 + 30 * 60, end |-> 15 * 3600] >>

\* the first session containing t, 0 when there is none (the for/break loop)
CurrentSession(t) ==
    IF \E i \in 1..Len(sessions) : sessions[i].start <= t /\ t <= sessions[i].end
    THEN CHOOSE i \in 1..Len(sessions) :
            /\ sessions[i].start <= t /\ t <= sessions[i].end
            /\ \A j \in 1..(i - 1) : ~(sessions[j].start <= t /\ t <= sessions[j].end)
    ELSE 0

\* is_in_trading_session with the buffer test left out
is_in_trading_session_NoBuffer(t) ==
    CurrentSession(t) # 0

\* is_in_trading_session(order_id) evaluated at time of day t
is_in_trading_session(t) ==
    LET s == CurrentSession(t) IN
    IF s = 0 THEN FALSE
    ELSE IF sessions[s].end - t <= SESSION_END_BUFFER_SECONDS THEN FALSE
    ELSE TRUE

\* _in_trading_time() of the worker loop: minute resolution, closed ranges
in_trading_time(t) ==
    LET time_in_minutes == t \div 60 IN
    \/ (9 * 60 <= time_in_minutes /\ time_in_minutes <= 10 * 60 + 15)
    \/ (10 * 60 + 30 <= time_in_minutes /\ time_in_minutes <= 11 * 60 + 30)
    \/ (13 * 60 + 30 <= time_in_minutes /\ time_in_minutes <= 15 * 60)

(***************************************************************************)
(* Order requests.  order_id is the id of the message that carries the     *)
(* request; a child order of a split carries a suffix.  timestamp is a     *)
(* time of day in seconds (the code uses nanoseconds since the epoch and   *)
(* divides the difference by 1e9); NoneValue is a missing field.           *)
(***************************************************************************)
Symbols == { "SHFE.rb2505", "DCE.m2505" }
CLOSETODAY_EXCHANGES == { "SHFE", "INE" }

\* symbol.split('.')[0]
ExchangeOf(symbol) ==
    IF symbol = "SHFE.rb2505" THEN "SHFE" ELSE "DCE"

Timestamps(t) == { NoneValue, 0, t - ORDER_EXPIRE_ALLOW_MAX, t - ORDER_EXPIRE_ALLOW_MAX - 1 }

SubmitRequests(id, t) ==
    [ action : {"SUBMIT"}, symbol : Symbols, direction : {"BUY", "SELL"},
      offset : {"OPEN", "CLOSE"}, volume : 1..MaxVolume,
      order_id : { [base |-> id, suffix |-> ""] }, timestamp : Timestamps(t) ]

CancelRequests(id) ==
    { [ action |-> "CANCEL", symbol |-> "DCE.m2505", direction |-> "BUY",
        offset |-> "OPEN", volume |-> 1,
        order_id |-> [base |-> id, suffix |-> ""], timestamp |-> NoneValue ] }

Requests(id, t) == SubmitRequests(id, t) \cup CancelRequests(id)

\* a cached FullPosition, or NoPosition when the key is absent; the
\* positions the submitter is run against hold the same lots on both sides
\* (SplitPositions has every combination)
NoPosition == [ absent |-> TRUE ]
Positions ==
    { p \in [ absent : {FALSE}, pos_long_today : 0..1, pos_long_his : 0..1,
              pos_short_today : 0..1, pos_short_his : 0..1 ] :
         /\ p.pos_short_today = p.pos_long_today
         /\ p.pos_short_his = p.pos_long_his }

\* RedisClient.get_full_position: what the cache may answer for a symbol
get_full_position == Positions \cup { NoPosition }

\* requires_closetoday(symbol)
requires_closetoday(symbol) == ExchangeOf(symbol) \in CLOSETODAY_EXCHANGES

Min(a, b) == IF a <= b THEN a ELSE b

\* the orders the monitors watch; NoOrder for a key the dict does not hold
MonOrderIds == { "o1", "o2" }
NoOrder == [ absent |-> TRUE ]

\* time.time() when the reconciler starts, counted from an origin that
\* leaves the first gap to last_success_ts = 0 at least the interval, as the
\* epoch does
StartTime == POSITION_LOOP_INTERVAL_SECONDS

\* split_close_order whose CLOSE child takes all that remains of the volume
split_close_order_Uncapped(order_request, position) ==
    IF order_request.offset # "CLOSE" \/ ~requires_closetoday(order_request.symbol)
    THEN << order_request >>
    ELSE IF position = NoPosition
    THEN << order_request >>
    ELSE
      LET volume    == order_request.volume
          today_qty == IF order_request.direction = "SELL"
                       THEN position.pos_long_today ELSE position.pos_short_today
          his_qty   == IF order_request.direction = "SELL"
                       THEN position.pos_long_his ELSE position.pos_short_his
          closetoday_vol == Min(today_qty, volume)
          first  == IF today_qty > 0 /\ volume > 0
                    THEN << [order_request EXCEPT !.offset = "CLOSETODAY",
                                                  !.volume = closetoday_vol,
                                                  !.order_id.suffix = "_closetoday"] >>
                    ELSE << >>
          remaining == IF today_qty > 0 /\ volume > 0
                       THEN volume - closetoday_vol ELSE volume
          second == IF his_qty > 0 /\ remaining > 0
                    THEN << [order_request EXCEPT !.offset = "CLOSE",
                                                  !.volume = remaining,
                                                  !.order_id.suffix = "_close"] >>
                    ELSE << >>
          orders == first \o second
      IN IF orders = << >> THEN << order_request >> ELSE orders

\* split_close_order with the two quantities taken from the wrong places
split_close_order_SwappedQty(order_request, position) ==
    IF order_request.offset # "CLOSE" \/ ~requires_closetoday(order_request.symbol)
    THEN << order_request >>
    ELSE IF position = NoPosition
    THEN << order_request >>
    ELSE
      LET volume    == order_request.volume
          today_qty == IF order_request.direction = "SELL"
                       THEN position.pos_long_his ELSE position.pos_short_his
          his_qty   == IF order_request.direction = "SELL"
                       THEN position.pos_long_today ELSE position.pos_short_today
          closetoday_vol == Min(today_qty, volume)
          first  == IF today_qty > 0 /\ volume > 0
                    THEN << [order_request EXCEPT !.offset = "CLOSETODAY",
                                                  !.volume = closetoday_vol,
                                                  !.order_id.suffix = "_closetoday"] >>
                    ELSE << >>
          remaining == IF today_qty > 0 /\ volume > 0
                       THEN volume - closetoday_vol ELSE volume
          second == IF his_qty > 0 /\ remaining > 0
                    THEN << [order_request EXCEPT !.offset = "CLOSE",
                                                  !.volume = Min(his_qty, remaining),
                                                  !.order_id.suffix = "_close"] >>
                    ELSE << >>
          orders == first \o second
      IN IF orders = << >> THEN << order_request >> ELSE orders

\* split_close_order(order_request, redis_client, portfolio_id), position being
\* the answer of redis_client.get_full_position
split_close_order(order_request, position) ==
    IF order_request.offset # "CLOSE" \/ ~requires_closetoday(order_request.symbol)
    THEN << order_request >>
    ELSE IF position = NoPosition
    THEN << order_request >>
    ELSE
      LET volume    == order_request.volume
          today_qty == IF order_request.direction = "SELL"
                       THEN position.pos_long_today ELSE position.pos_short_today
          his_qty   == IF order_request.direction = "SELL"
                       THEN position.pos_long_his ELSE position.pos_short_his
          closetoday_vol == Min(today_qty, volume)
          first  == IF today_qty > 0 /\ volume > 0
                    THEN << [order_request EXCEPT !.offset = "CLOSETODAY",
                                                  !.volume = closetoday_vol,
                                                  !.order_id.suffix = "_closetoday"] >>
                    ELSE << >>
          remaining == IF today_qty > 0 /\ volume > 0
                       THEN volume - closetoday_vol ELSE volume
          second == IF his_qty > 0 /\ remaining > 0
                    THEN << [order_request EXCEPT !.offset = "CLOSE",
                                                  !.volume = Min(his_qty, remaining),
                                                  !.order_id.suffix = "_close"] >>
                    ELSE << >>
          orders == first \o second
      IN IF orders = << >> THEN << order_request >> ELSE orders

(***************************************************************************)
(* State.                                                                  *)
(***************************************************************************)
VARIABLES
    now,               \* Asia/Shanghai time of day, seconds
    \* --- blocking consumer hosting the Order Submitter ---
    published,         \* number of messages the upstream has published
    ready,             \* messages at the bus, deliverable to the consumer
    consumer_running,  \* RabbitMQConsumer.running
    settled,           \* answers the bus received: [id, verdict]
    lastCalls,         \* broker insert_order calls of the last callback
    insertCount,       \* per order_id, the number of broker insert_order calls
    orders_table,      \* order_ids with a row in order_history_futures_chn
    \* --- dual-loop skeleton: Bus Loop ---
    bpc,               \* position of consume_messages_async
    heartbeat_alive,   \* self.heartbeat_alive
    delivered,         \* number of messages the bus has delivered
    bcur,              \* the message inside message.process(): [id, put] or NoMessage
    body,              \* per delivered message, "json" or "badjson"
    settle,            \* per delivered message, the answer the bus received
    message_queue,     \* self.message_queue, the hand-off queue
    enqueued,          \* history: messages in the order put_nowait accepted them
    \* --- dual-loop skeleton: Worker Loop ---
    wpc,               \* position of tqapi_worker_loop
    block_counter,     \* the local block_counter
    block_res,         \* result of the last wait_update
    drains,            \* history: number of drains started
    warnings,          \* history: number of timeout warnings logged
    fatal,             \* history: "Too many TqSDK timeouts" was raised
    dispatched,        \* history: messages in the order they were dispatched
    handled,           \* per dispatched message, the handler's outcome
    \* --- dual-loop skeleton: shared flags ---
    worker_running,    \* self.worker_running (threading.Event)
    shutdown_event,    \* self.shutdown_event (asyncio.Event)
    \* --- dual-loop skeleton: the session and the life of the process ---
    start_outcome,     \* history: how create_tqapi and the initialisation ended
    api_held,          \* self.api is set
    open_sessions,     \* TqApi sessions created and not closed
    closes,            \* history: number of api.close() calls
    cleaned,           \* history: cleanup_worker_resources() was called
    hpc,               \* heartbeat_task: "running" or "stopped"
    apc,               \* run(): "waiting" (in start_async_tasks), "ended"
                       \* (asyncio.run returned), "returned"
    signalled,         \* history: signal_handler ran
    exit_status,       \* the exit status of the process, NoneValue while it runs
    \* --- legacy single-process client ---
    mainpc,            \* position of main() on the main thread
    monpc,             \* position of the monitor thread (_monitor_loop)
    execpc,            \* position of the executor thread (_executor_loop)
    stream_running,    \* TqDataStreamHandler.running
    cancel_queue,      \* number of cancel requests on TqDataStreamHandler.cancel_queue
    legacy_orders,     \* number of order messages the executor has received
    api_creator,       \* the thread that created the TqApi session, or "none"
    api_calls,         \* history: the calls made on the session, [call, thread]
    \* --- split_close_order applied to one request ---
    split_request,     \* the order request
    split_position,    \* the cached position, or NoPosition
    split_orders,      \* the list split_close_order returned, or NotYet
    \* --- position reconciler (PositionLoopMonitor) ---
    wall_clock,        \* time.time(), seconds
    recon_running,     \* PositionLoopMonitor.running
    recon_pc,          \* "drain", "gate", "cycle", "read", "write", "write_late",
                       \* "sleep", "stopped"
    last_success_ts,   \* PositionLoopMonitor.last_success_ts
    current_time,      \* the local current_time of start(), 0 between iterations
    tq_positions,      \* api.get_position(): symbol -> broker position object
    redis_cache,       \* symbol -> entry [value, expires], or NoPosition
    recon_todo,        \* the calls the running cycle has still to make
    redis_position,    \* the local redis_position of the call in progress, if any
    ever_written,      \* history: symbols the reconciler has written
    iter_drains,       \* history: wait_update calls of the current iteration
    cycle_started,     \* history: wall_clock when the cycle in progress started
    completed_start,   \* history: start of the last completed cycle, or NoneValue
    \* --- order monitors (OrderMonitor, TqDataStreamHandler) ---
    mon_pc,            \* "drain", "check", "legacy_check"
    tq_orders,         \* api.get_order(): order_id -> order object, or NoOrder
    previous_orders,   \* OrderMonitor.previous_orders: order_id -> snapshot, or NoOrder
    mon_events,        \* the updates the last OrderMonitor tick handed to on_update
    mon_unpublished,   \* history: orders whose update of this pass did not reach the bus
    legacy_previous_orders, \* TqDataStreamHandler.previous_orders
    legacy_events,     \* the order_data the last legacy tick handed on
    \* --- order handlers (DataProcessor, OrderPostgresWriter) ---
    order_history,     \* the order_history row of one order: status, filled_quantity
    last_order_data,   \* history: the order_data of the last update applied to it
    order_event,       \* number of rows of the order_event table
    futures_row,       \* the order_history_futures_chn row of one order
    trade_history,     \* the rows of trade_history_futures_chn, in insertion order
    redelivered,       \* history: an applied update carried a trade already stored
    \* --- blocking consumer hosting a Handler (account, position, order) ---
    hq,                \* the Handler's queue at the bus, oldest message first
    hlog,              \* history: one record per delivery, in order
    handler_running,   \* RabbitMQConsumer.running of the Handler's consumer
    \* --- Order Canceller: process_order_cancel on a session-owning worker ---
    can_pc,            \* "idle", "loop_drain", "poll", "wait_one", "wait_all",
                       \* "wait_contract"
    can_msg,           \* the message being handled, or NoCancel
    exch_orders,       \* the orders as the broker has them: order_id -> order
    api_orders,        \* api.get_order(), the session's view as of its last drain
    can_pending,       \* the broker sent an update the session has not drained
    can_cur,           \* cancel_all: the order of the running iteration
    can_todo,          \* cancel_all: alive_orders still to iterate
    can_wait,          \* cancel_orders_by_contract: its alive_orders
    can_calls,         \* history: api.cancel_order calls of this message, in order
    can_seen,          \* history: api_orders when the handler was entered
    can_start,         \* cancel_all: start_time of the running iteration
    can_clock,         \* time.time(), seconds
    can_drain,         \* the wait_update call in progress: [site, deadline] or NoDrain
    can_ret,           \* history: the last return: [msg, seen, ret, calls, view]
    can_count,         \* history: messages dispatched
    \* --- the order request models and their dictionaries ---
    codec_request,     \* an OrderSubmitRequest or an OrderCancelRequest
    codec_result,      \* from_dict(to_dict(codec_request)), or NotYet
    \* --- position monitor (PositionMonitor) ---
    pos_before,        \* history: api.get_position() at the tick before the last
    pos_live,          \* api.get_position() at the last tick: symbol -> position
    previous_positions,\* PositionMonitor.previous_positions: symbol -> net
    pos_updates,       \* the updates the last tick handed to on_update, in order
    \* --- account monitor (AccountMonitor); amounts in units of 0.01 ---
    account,           \* api.get_account() at the last tick
    previous_account,  \* AccountMonitor.previous_account, or NoAccount
    account_update,    \* the update last handed to on_update, or NoAccount
    \* --- shutdown() of the dual-loop service ---
    spc                \* position of shutdown(): idle, joining, returned

submitVars == << published, ready, consumer_running, settled, lastCalls,
                 insertCount, orders_table >>
busVars == << bpc, heartbeat_alive, delivered, bcur, body, settle,
              message_queue, enqueued >>
workerVars == << wpc, block_counter, block_res, drains, warnings, fatal,
                 dispatched, handled >>
flagVars == << worker_running, shutdown_event >>
lifeVars == << start_outcome, api_held, open_sessions, closes, cleaned, hpc,
              apc, signalled, exit_status >>
dualVars == << busVars, workerVars, flagVars, lifeVars >>
legacyVars == << mainpc, monpc, execpc, stream_running, cancel_queue,
                 legacy_orders, api_creator, api_calls >>
splitVars == << split_request, split_position, split_orders >>
\* the variables of the pure functions and of the services modelled one by one
reconVars == << wall_clock, recon_running, recon_pc, last_success_ts,
                current_time, tq_positions, redis_cache, recon_todo,
                redis_position, ever_written, iter_drains, cycle_started,
                completed_start >>
monVars == << mon_pc, tq_orders, previous_orders, mon_events, mon_unpublished,
              legacy_previous_orders, legacy_events >>
handlerVars == << order_history, last_order_data, order_event, futures_row,
                  trade_history, redelivered >>
consumerVars == << hq, hlog, handler_running >>
ext1Vars == << splitVars, reconVars, monVars, handlerVars >>
cancelVars == << can_pc, can_msg, exch_orders, api_orders, can_pending,
                 can_cur, can_todo, can_wait, can_calls, can_seen, can_start,
                 can_clock, can_drain, can_ret, can_count >>
codecVars == << codec_request, codec_result >>
ext2Vars == << consumerVars, cancelVars, codecVars >>
posVars == << pos_before, pos_live, previous_positions, pos_updates >>
acctVars == << account, previous_account, account_update >>
joinVars == << spc >>
ext3Vars == << posVars, acctVars, joinVars >>
extVars == << ext1Vars, ext2Vars, ext3Vars >>
\* extVars without one service's own variables
notSplit == << reconVars, monVars, handlerVars, ext2Vars, ext3Vars >>
notRecon == << splitVars, monVars, handlerVars, ext2Vars, ext3Vars >>
notMon == << splitVars, reconVars, handlerVars, ext2Vars, ext3Vars >>
notHandler == << splitVars, reconVars, monVars, ext2Vars, ext3Vars >>
notConsumer == << ext1Vars, cancelVars, codecVars, ext3Vars >>
notCancel == << ext1Vars, consumerVars, codecVars, ext3Vars >>
notCodec == << ext1Vars, consumerVars, cancelVars, ext3Vars >>
notPos == << ext1Vars, ext2Vars, acctVars, joinVars >>
notAcct == << ext1Vars, ext2Vars, posVars, joinVars >>
notJoin == << ext1Vars, ext2Vars, posVars, acctVars >>
\* the variables of the three processes above
coreVars == << submitVars, dualVars, legacyVars >>
vars == << now, coreVars, extVars >>

Suffixes == { "", "_closetoday", "_close" }
OrderIds == [ base : 1..MaxPublish, suffix : Suffixes ]

\* what the broker session does during one execute_order
BrokerBehaviours == { "ok", "raise_drain1", "raise_insert", "raise_drain2" }

(***************************************************************************)
(* execute_order(api, order_request) at time of day t; rows are the        *)
(* order_ids that have a row in the orders table.  The result is the       *)
(* returned value ("False", or "None" when the function falls off its      *)
(* end) and the insert_order calls made, each with the facts of the check  *)
(* that preceded it.                                                       *)
(***************************************************************************)
execute_order(order_request, t, beh, rows) ==
    LET order_timestamp == order_request.timestamp
        age_seconds == t - order_timestamp
        call == [ order_id |-> order_request.order_id,
                  had_timestamp |-> order_timestamp # NoneValue,
                  age |-> age_seconds,
                  tod |-> t,
                  row_inserted |-> order_request.order_id \in rows,
                  raised |-> beh = "raise_insert" ]
    IN  IF order_timestamp = NoneValue \/ order_timestamp = 0
        THEN [ ret |-> "False", calls |-> << >> ]            \* missing timestamp
        ELSE IF age_seconds > ORDER_EXPIRE_ALLOW_MAX
        THEN [ ret |-> "False", calls |-> << >> ]            \* expired
        ELSE IF ~is_in_trading_session(t)
        THEN [ ret |-> "False", calls |-> << >> ]
        ELSE IF beh = "raise_drain1"                         \* api.wait_update()
        THEN [ ret |-> "False", calls |-> << >> ]
        ELSE IF beh = "raise_insert"                         \* api.insert_order(...)
        THEN [ ret |-> "False", calls |-> << call >> ]
        ELSE IF beh = "raise_drain2"                         \* api.wait_update()
        THEN [ ret |-> "False", calls |-> << call >> ]
        ELSE [ ret |-> "None", calls |-> << call >> ]        \* no return statement

\* the cache is read only for a CLOSE on a CLOSETODAY exchange
PositionAnswers(message) ==
    IF message.offset = "CLOSE" /\ requires_closetoday(message.symbol)
    THEN get_full_position ELSE { NoPosition }

\* the broker's behaviours during the execute_order calls of one message: a
\* behaviour is chosen only for an order that gets as far as the session
ReachesBroker(order_request, t) ==
    /\ order_request.action # "CANCEL"
    /\ order_request.timestamp # NoneValue /\ order_request.timestamp # 0
    /\ t - order_request.timestamp <= ORDER_EXPIRE_ALLOW_MAX
    /\ CurrentSession(t) # 0

BehaviourChoices(orders, t) ==
    { behs \in [ 1..2 -> BrokerBehaviours ] :
        \A i \in 1..2 :
           (i > Len(orders) \/ ~ReachesBroker(orders[i], t)) => behs[i] = "ok" }

\* Python truth of a returned value
Truthy(v) == v = "True"

(***************************************************************************)
(* OrderSubmitterService.process_order(message): split, then execute       *)
(* every order of the split; behs[i] is the broker's behaviour during the  *)
(* i-th execute_order.                                                     *)
(***************************************************************************)
process_order(message, t, position, behs, rows) ==
    IF message.action = "CANCEL"
    THEN [ ret |-> "True", calls |-> << >>, orders |-> 0, clean |-> 0 ]
    ELSE
      LET orders == split_close_order(message, position)
          r1 == execute_order(orders[1], t, behs[1], rows)
          r2 == IF Len(orders) > 1
                THEN execute_order(orders[2], t, behs[2], rows)
                ELSE [ ret |-> "True", calls |-> << >> ]
          success == IF ~Truthy(r1.ret) THEN FALSE
                     ELSE IF Len(orders) > 1 /\ ~Truthy(r2.ret) THEN FALSE
                     ELSE TRUE
      \* orders: the orders executed; clean: those whose execute_order passed
      \* every check and reached its end without an exception
      IN [ ret |-> IF success THEN "True" ELSE "False",
           calls |-> r1.calls \o r2.calls,
           orders |-> Len(orders),
           clean |-> (IF r1.ret = "None" THEN 1 ELSE 0)
                     + (IF Len(orders) > 1 /\ r2.ret = "None" THEN 1 ELSE 0) ]

(***************************************************************************)
(* The clock.                                                              *)
(***************************************************************************)
Tick(samples) ==
    /\ \E t \in samples : t > now /\ now' = t
    /\ UNCHANGED << submitVars, dualVars, legacyVars, extVars >>

(***************************************************************************)
(* The blocking consumer (RabbitMQConsumer.consume) hosting                *)
(* OrderSubmitterService.process_order.  Prefetch is 1 and on_message runs *)
(* to its end on the consumer's only thread, so one message is handled at  *)
(* a time.                                                                 *)
(***************************************************************************)
\* the upstream publishes a message; its body is valid JSON or not
Publish ==
    /\ published < MaxPublish
    /\ published' = published + 1
    /\ \E bad \in BOOLEAN :
          ready' = ready \cup { [ id |-> published + 1, badjson |-> bad, deliveries |-> 0 ] }
    /\ UNCHANGED << now, consumer_running, settled, lastCalls, insertCount, orders_table, dualVars, legacyVars, extVars >>

\* the bus's record of an answer; for a message the callback handled,
\* orders and clean are those of process_order
Answer(m, verdict, orders, clean) ==
    [ id |-> m.id, delivery |-> m.deliveries + 1, badjson |-> m.badjson,
      verdict |-> verdict, orders |-> orders, clean |-> clean ]

CountCalls(calls, oid) == Cardinality({ i \in 1..Len(calls) : calls[i].order_id = oid })

\* on_message(ch, method, properties, body) for the delivered message m.
\* process_order catches every Exception, so the callback never raises and
\* the last except clause (nack with requeue) is not taken with this callback.
on_message(m) ==
    \/ /\ ~consumer_running
       /\ settled' = settled \cup { Answer(m, "nack_requeue", 0, 0) }
       /\ ready' = (ready \ {m}) \cup { [ m EXCEPT !.deliveries = @ + 1 ] }
       /\ UNCHANGED << lastCalls, insertCount >>
    \/ /\ consumer_running
       /\ m.badjson                                         \* json.JSONDecodeError
       /\ settled' = settled \cup { Answer(m, "nack", 0, 0) }
       /\ ready' = ready \ {m}
       /\ UNCHANGED << lastCalls, insertCount >>
    \/ /\ consumer_running
       /\ ~m.badjson
       /\ \E message \in Requests(m.id, now) :
          \E position \in PositionAnswers(message) :
          \E behs \in BehaviourChoices(split_close_order(message, position), now) :
             LET r == process_order(message, now, position, behs, orders_table) IN
             /\ settled' = settled \cup
                   { Answer(m, IF Truthy(r.ret) THEN "ack" ELSE "nack",
                            r.orders, r.clean) }
             /\ lastCalls' = r.calls
             /\ insertCount' = [ oid \in OrderIds |->
                                   insertCount[oid] + CountCalls(r.calls, oid) ]
       /\ ready' = ready \ {m}

OnMessage ==
    /\ \E m \in ready :
          /\ m.deliveries < MaxRedeliver
          /\ on_message(m)
    /\ UNCHANGED << now, published, consumer_running, orders_table, dualVars, legacyVars, extVars >>

\* signal_handler: self.consumer.stop()
ConsumerStop ==
    /\ consumer_running
    /\ consumer_running' = FALSE
    /\ UNCHANGED << now, published, ready, settled, lastCalls, insertCount, orders_table, dualVars, legacyVars, extVars >>

(***************************************************************************)
(* The dual-loop skeleton AioPikaTqApiService.                             *)
(***************************************************************************)
NoMessage == [ id |-> 0, put |-> "none" ]

\* queue.Queue(maxsize=QueueMaxSize).put_nowait(item): queue.Full when full
put_nowait_Unbounded(q, item) ==
    [ full |-> FALSE, queue |-> Append(q, item) ]

put_nowait(q, item) ==
    IF Len(q) >= QueueMaxSize
    THEN [ full |-> TRUE, queue |-> q ]
    ELSE [ full |-> FALSE, queue |-> Append(q, item) ]

\* queue.Queue.get_nowait() on a queue that is not empty
get_nowait_Lifo(q) ==
    [ item |-> q[Len(q)], queue |-> SubSeq(q, 1, Len(q) - 1) ]

get_nowait(q) ==
    [ item |-> Head(q), queue |-> Tail(q) ]

\* the body of 'async with message.process()' for a body of the given kind:
\* what became of the message before the scope is left
process_scope(kind, q, id) ==
    IF kind = "badjson"
    THEN [ put |-> "undecoded", queue |-> q ]     \* JSONDecodeError, logged
    ELSE IF put_nowait(q, id).full
    THEN [ put |-> "full", queue |-> q ]          \* raise Exception("Queue full")
    ELSE [ put |-> "queued", queue |-> put_nowait(q, id).queue ]

\* leaving 'async with message.process()': an exception leaves it with
\* reject(requeue=False), anything else with ack
process_exit(put) ==
    IF put = "full" THEN "reject" ELSE "ack"

\* the counter after a drain that returned block_res, trading being
\* self._in_trading_time()
NextBlockCounter_NoReset(counter, res, trading) ==
    IF ~res /\ trading THEN counter + 1 ELSE counter

NextBlockCounter(counter, res, trading) ==
    IF ~res
    THEN IF trading THEN counter + 1 ELSE counter
    ELSE 0

\* if block_counter > self.block_counter_max: raise
FatalCondition_AtMax(counter) == counter >= block_counter_max

FatalCondition(counter) == counter > block_counter_max

\* process_message_in_worker(message): it returns True or False, or raises
HandlerOutcomes == { "True", "False", "raised" }

\* ---- Bus Loop: consume_messages_async ----
\* aio_pika.connect_robust(...) and the declarations; any of them may raise
BusConnect ==
    /\ bpc = "connect"
    /\ ~shutdown_event
    /\ \E ok \in BOOLEAN :
          /\ heartbeat_alive' = ok
          /\ bpc' = IF ok THEN "wait" ELSE "backoff"
    /\ UNCHANGED << now, submitVars, legacyVars, extVars, lifeVars, delivered, bcur, body, settle, message_queue,
                    enqueued, workerVars, flagVars >>

\* await asyncio.sleep(5) after a consumer error
BusBackoff ==
    /\ bpc = "backoff"
    /\ ~shutdown_event
    /\ bpc' = "connect"
    /\ UNCHANGED << now, submitVars, legacyVars, extVars, lifeVars, heartbeat_alive, delivered, bcur, body, settle,
                    message_queue, enqueued, workerVars, flagVars >>

\* the bus delivers the next message (prefetch 1: the previous one is
\* settled); the scope decodes it and tries to hand it off
BusReceive(limit) ==
    /\ bpc = "wait"
    /\ delivered < limit
    /\ \E kind \in { "json", "badjson" } :
          LET id == delivered + 1
              r  == process_scope(kind, message_queue, id)
          IN /\ delivered' = id
             /\ body' = body @@ (id :> kind)
             /\ settle' = settle @@ (id :> "none")
             /\ bcur' = [ id |-> id, put |-> r.put ]
             /\ message_queue' = r.queue
             /\ enqueued' = IF r.put = "queued" THEN Append(enqueued, id) ELSE enqueued
    /\ bpc' = "settle"
    /\ UNCHANGED << now, submitVars, legacyVars, extVars, lifeVars, heartbeat_alive, workerVars, flagVars >>

\* the scope is left: the answer reaches the bus; after "Queue full" the
\* exception reaches the outer handler, otherwise the loop tests
\* shutdown_event and waits for the next message
BusSettle ==
    /\ bpc = "settle"
    /\ settle' = [ settle EXCEPT ![bcur.id] = process_exit(bcur.put) ]
    /\ bcur' = NoMessage
    /\ IF bcur.put = "full"
       THEN /\ heartbeat_alive' = FALSE
            /\ bpc' = "backoff"
       ELSE /\ heartbeat_alive' = heartbeat_alive
            /\ bpc' = IF shutdown_event THEN "stopped" ELSE "wait"
    /\ UNCHANGED << now, submitVars, legacyVars, extVars, lifeVars, delivered, body, message_queue, enqueued,
                    workerVars, flagVars >>

\* shutdown_event is set: the consumer task is cancelled or its loop ends
BusStop ==
    /\ bpc \in { "connect", "wait", "backoff" }
    /\ shutdown_event
    /\ bpc' = "stopped"
    /\ UNCHANGED << now, submitVars, legacyVars, extVars, lifeVars, heartbeat_alive, delivered, bcur, body, settle,
                    message_queue, enqueued, workerVars, flagVars >>

\* ---- Worker Loop: tqapi_worker_loop ----
\* create_tqapi ends in one of three ways: TqApi(...) raises and no session
\* exists; the session is created and get_quote, get_account or get_order
\* raises, so that create_tqapi returns nothing; or it returns the session
StartOutcomes == { "ok", "no_session", "session_lost", "init_raised" }

\* self.api = create_tqapi(self.config)
create_tqapi(outcome) ==
    [ api_held |-> outcome \in { "ok", "init_raised" },
      open_sessions |-> IF outcome = "no_session" THEN 0 ELSE 1 ]

\* create_tqapi, initialize_worker_resources, block_counter = 0; when one of
\* the first two raises, the loop is never entered
WorkerStart ==
    /\ wpc = "start"
    /\ \E outcome \in StartOutcomes :
          /\ wpc' = IF outcome = "ok" THEN "loop" ELSE "cleanup"
          /\ start_outcome' = outcome
          /\ api_held' = create_tqapi(outcome).api_held
          /\ open_sessions' = create_tqapi(outcome).open_sessions
    /\ block_counter' = 0
    /\ UNCHANGED << now, submitVars, legacyVars, extVars, busVars, block_res, drains, warnings,
                    fatal, dispatched, handled, flagVars, closes, cleaned, hpc,
                    apc, signalled, exit_status >>

\* one pass of the loop up to the queue poll: the test of worker_running,
\* api.wait_update(deadline=now + block_timeout), the counter, the fatal test
WorkerDrain(limit) ==
    /\ wpc = "loop"
    /\ worker_running
    /\ drains < limit
    /\ \E res \in BOOLEAN :
          LET trading == in_trading_time(now)
              counter == NextBlockCounter(block_counter, res, trading)
          IN /\ block_res' = res
             /\ block_counter' = counter
             /\ drains' = drains + 1
             /\ warnings' = IF ~res /\ trading THEN warnings + 1 ELSE warnings
             /\ IF FatalCondition(counter)
                THEN fatal' = TRUE /\ wpc' = "cleanup"
                ELSE fatal' = fatal /\ wpc' = "poll"
    /\ UNCHANGED << now, submitVars, legacyVars, extVars, lifeVars, busVars, dispatched, handled, flagVars >>

\* message_queue.get_nowait() and, when a message is there, the handler;
\* the handler's result is only logged
WorkerPoll ==
    /\ wpc = "poll"
    /\ IF message_queue = << >>
       THEN UNCHANGED << message_queue, dispatched, handled >>
       ELSE LET g == get_nowait(message_queue) IN
            /\ message_queue' = g.queue
            /\ dispatched' = Append(dispatched, g.item)
            /\ \E outcome \in HandlerOutcomes :
                  handled' = handled @@ (g.item :> outcome)
    /\ wpc' = "loop"
    /\ UNCHANGED << now, submitVars, legacyVars, extVars, lifeVars, bpc, heartbeat_alive, delivered, bcur, body,
                    settle, enqueued, block_counter, block_res, drains, warnings,
                    fatal, flagVars >>

\* the loop test finds worker_running cleared
WorkerExit ==
    /\ wpc = "loop"
    /\ ~worker_running
    /\ wpc' = "cleanup"
    /\ UNCHANGED << now, submitVars, legacyVars, extVars, lifeVars, busVars, block_counter, block_res, drains,
                    warnings, fatal, dispatched, handled, flagVars >>

\* finally: cleanup_worker_resources(), its exception caught
WorkerCleanup ==
    /\ wpc = "cleanup"
    /\ wpc' = "close"
    /\ cleaned' = TRUE
    /\ UNCHANGED << now, submitVars, legacyVars, extVars, busVars, block_counter, block_res, drains,
                    warnings, fatal, dispatched, handled, flagVars,
                    start_outcome, api_held, open_sessions, closes, hpc, apc,
                    signalled, exit_status >>

\* finally: if self.api: close_tqapi(self.api); the thread ends
WorkerClose ==
    /\ wpc = "close"
    /\ wpc' = "done"
    /\ IF api_held
       THEN closes' = closes + 1 /\ open_sessions' = open_sessions - 1
       ELSE UNCHANGED << closes, open_sessions >>
    /\ UNCHANGED << now, submitVars, legacyVars, extVars, busVars, block_counter, block_res, drains,
                    warnings, fatal, dispatched, handled, flagVars,
                    start_outcome, api_held, cleaned, hpc, apc, signalled,
                    exit_status >>

\* ---- heartbeat_task, shutdown ----
\* a heartbeat that does not look at the worker thread
HeartbeatWorkerDied_NoCheck ==
    /\ hpc = "running"
    /\ ~shutdown_event
    /\ wpc = "done"
    /\ UNCHANGED vars

\* the heartbeat finds the worker thread dead: it sets shutdown_event and
\* leaves its loop
HeartbeatWorkerDied ==
    /\ hpc = "running"
    /\ ~shutdown_event
    /\ wpc = "done"
    /\ shutdown_event' = TRUE
    /\ hpc' = "stopped"
    /\ UNCHANGED << now, submitVars, legacyVars, extVars, busVars, workerVars, worker_running,
                    start_outcome, api_held, open_sessions, closes, cleaned,
                    apc, signalled, exit_status >>

\* the heartbeat's loop test finds shutdown_event set, or the task is
\* cancelled in its sleep
HeartbeatStop ==
    /\ hpc = "running"
    /\ shutdown_event
    /\ hpc' = "stopped"
    /\ UNCHANGED << now, submitVars, legacyVars, extVars, busVars, workerVars, flagVars,
                    start_outcome, api_held, open_sessions, closes, cleaned,
                    apc, signalled, exit_status >>

\* start_async_tasks: shutdown_event.wait() returns, both tasks are cancelled
\* and gathered, asyncio.run returns
AsyncTasksEnd ==
    /\ apc = "waiting"
    /\ shutdown_event
    /\ bpc = "stopped" /\ hpc = "stopped"
    /\ apc' = "ended"
    /\ UNCHANGED << now, submitVars, legacyVars, extVars, busVars, workerVars, flagVars,
                    start_outcome, api_held, open_sessions, closes, cleaned,
                    hpc, signalled, exit_status >>

\* signal_handler(signum, frame): shutdown()
SignalHandler ==
    /\ apc = "waiting"
    /\ ~signalled
    /\ signalled' = TRUE
    /\ shutdown_event' = TRUE
    /\ worker_running' = FALSE
    /\ UNCHANGED << now, submitVars, legacyVars, extVars, busVars, workerVars,
                    start_outcome, api_held, open_sessions, closes, cleaned,
                    hpc, apc, exit_status >>

\* run(): the finally clause calls shutdown()
RunFinally ==
    /\ apc = "ended"
    /\ apc' = "returned"
    /\ shutdown_event' = TRUE
    /\ worker_running' = FALSE
    /\ UNCHANGED << now, submitVars, legacyVars, extVars, busVars, workerVars,
                    start_outcome, api_held, open_sessions, closes, cleaned,
                    hpc, signalled, exit_status >>

\* the status the interpreter exits with once run() has returned: run()
\* catches every Exception and no caller of it raises or calls sys.exit
ExitStatus(outcome, is_fatal, was_signalled) == 0

\* run() has returned and the worker thread, which is not a daemon, has
\* ended: the process exits
ProcessExit ==
    /\ apc = "returned"
    /\ wpc = "done"
    /\ exit_status = NoneValue
    /\ exit_status' = ExitStatus(start_outcome, fatal, signalled)
    /\ UNCHANGED << now, submitVars, legacyVars, extVars, busVars, workerVars, flagVars,
                    start_outcome, api_held, open_sessions, closes, cleaned,
                    hpc, apc, signalled >>

\* shutdown(): from the signal handler, or from run() once the async tasks ended
Shutdown ==
    /\ ~shutdown_event \/ worker_running
    /\ shutdown_event' = TRUE
    /\ worker_running' = FALSE
    /\ UNCHANGED << now, submitVars, legacyVars, extVars, lifeVars, busVars, workerVars >>

\* shutdown() up to the join: both flags are set; worker_thread.join is
\* entered when the thread is alive and skipped when it has ended
ShutdownCall ==
    /\ spc = "idle"
    /\ shutdown_event' = TRUE
    /\ worker_running' = FALSE
    /\ spc' = IF wpc # "done" THEN "joining" ELSE "returned"
    /\ UNCHANGED << now, submitVars, legacyVars, notJoin, lifeVars, busVars, workerVars >>

\* worker_thread.join(timeout=5) returns because the thread has ended
JoinReturn ==
    /\ spc = "joining"
    /\ wpc = "done"
    /\ spc' = "returned"
    /\ UNCHANGED << now, submitVars, legacyVars, notJoin, lifeVars, busVars, workerVars, flagVars >>

\* worker_thread.join(timeout=5) returns because five seconds have passed:
\* the worker is still in a drain of up to block_timeout seconds, in a
\* handler, which has no deadline, or in its cleanup
JoinTimeout ==
    /\ spc = "joining"
    /\ wpc # "done"
    /\ spc' = "returned"
    /\ UNCHANGED << now, submitVars, legacyVars, notJoin, lifeVars, busVars, workerVars, flagVars >>

(***************************************************************************)
(* The legacy single-process client: main() on the main thread, the        *)
(* monitor thread of TqDataStreamHandler, the executor thread of           *)
(* OrderExecutor.  They share one TqApi session, stream_handler.api.       *)
(***************************************************************************)
ApiCalls(thread, calls) == { [ call |-> c, thread |-> thread ] : c \in calls }

\* stream_handler.start() on the main thread: TqApi(...), running = True,
\* the monitor thread is started
LegacyStreamStart ==
    /\ mainpc = "init"
    /\ api_creator' = "main"
    /\ api_calls' = api_calls \cup ApiCalls("main", { "create" })
    /\ stream_running' = TRUE
    /\ monpc' = "initialize"
    /\ mainpc' = "stream_started"
    /\ UNCHANGED << now, submitVars, dualVars, extVars, execpc, cancel_queue, legacy_orders >>

\* order_executor.start() on the main thread: the executor thread is started
LegacyExecutorStart ==
    /\ mainpc = "stream_started"
    /\ execpc' = "consuming"
    /\ mainpc' = "running"
    /\ UNCHANGED << now, submitVars, dualVars, extVars, monpc, stream_running, cancel_queue,
                    legacy_orders, api_creator, api_calls >>

\* _initialize_state() on the monitor thread
LegacyInitializeState ==
    /\ monpc = "initialize"
    /\ api_calls' = api_calls \cup
          ApiCalls("monitor", { "wait_update", "get_position", "get_order", "get_account" })
    /\ monpc' = "loop"
    /\ UNCHANGED << now, submitVars, dualVars, extVars, mainpc, execpc, stream_running,
                    cancel_queue, legacy_orders, api_creator >>

\* one pass of _monitor_loop on the monitor thread: the queued cancel
\* requests, wait_update, the position, order and account checks
LegacyMonitorPass ==
    /\ monpc = "loop"
    /\ stream_running
    /\ api_calls' = api_calls \cup
          ApiCalls("monitor",
                   { "wait_update", "get_position", "get_order", "get_account" }
                   \cup (IF cancel_queue > 0 THEN { "cancel_order" } ELSE {}))
    /\ cancel_queue' = 0
    /\ UNCHANGED << now, submitVars, dualVars, extVars, mainpc, monpc, execpc, stream_running,
                    legacy_orders, api_creator >>

\* the loop test of _monitor_loop finds running cleared
LegacyMonitorExit ==
    /\ monpc = "loop"
    /\ ~stream_running
    /\ monpc' = "done"
    /\ UNCHANGED << now, submitVars, dualVars, extVars, mainpc, execpc, stream_running,
                    cancel_queue, legacy_orders, api_creator, api_calls >>

\* _on_order_message on the executor thread: a SUBMIT goes to
\* _execute_order (api.insert_order), a CANCEL by order_id is queued for the
\* monitor thread, a CANCEL by contract_code reads api.get_order() and
\* queues the matching orders
LegacyOnOrderMessage ==
    /\ execpc = "consuming"
    /\ legacy_orders < MaxLegacyOrders
    /\ legacy_orders' = legacy_orders + 1
    /\ \E kind \in { "SUBMIT", "CANCEL_order_id", "CANCEL_contract_code" } :
          /\ api_calls' = api_calls \cup
                ApiCalls("executor",
                         IF kind = "SUBMIT" THEN { "insert_order" }
                         ELSE IF kind = "CANCEL_contract_code" THEN { "get_order" }
                         ELSE {})
          /\ cancel_queue' = IF kind = "SUBMIT" THEN cancel_queue ELSE cancel_queue + 1
    /\ UNCHANGED << now, submitVars, dualVars, extVars, mainpc, monpc, execpc, stream_running,
                    api_creator >>

\* signal_handler on the main thread: order_executor.stop(),
\* stream_handler.stop() (running = False, join with a timeout, api.close()),
\* sys.exit(0)
LegacyStop ==
    /\ mainpc \in { "stream_started", "running" }
    /\ stream_running' = FALSE
    /\ api_calls' = api_calls \cup ApiCalls("main", { "close" })
    /\ mainpc' = "stopped"
    /\ execpc' = "stopped"
    /\ UNCHANGED << now, submitVars, dualVars, extVars, monpc, cancel_queue, legacy_orders,
                    api_creator >>

(***************************************************************************)
(* Initial state and specifications.                                       *)
(***************************************************************************)
InitSubmitVars ==
    /\ published = 0
    /\ ready = {}
    /\ consumer_running = TRUE
    /\ settled = {}
    /\ lastCalls = << >>
    /\ insertCount = [ oid \in OrderIds |-> 0 ]
    /\ orders_table = {}

InitWorkerVars ==
    /\ wpc = "start"
    /\ block_counter = 0
    /\ block_res = TRUE
    /\ drains = 0
    /\ warnings = 0
    /\ fatal = FALSE
    /\ dispatched = << >>
    /\ handled = << >>
    /\ worker_running = TRUE
    /\ shutdown_event = FALSE
    /\ start_outcome = "none"
    /\ api_held = FALSE
    /\ open_sessions = 0
    /\ closes = 0
    /\ cleaned = FALSE
    /\ hpc = "running"
    /\ apc = "waiting"
    /\ signalled = FALSE
    /\ exit_status = NoneValue

InitBusVars ==
    /\ bpc = "connect"
    /\ heartbeat_alive = FALSE
    /\ delivered = 0
    /\ bcur = NoMessage
    /\ body = << >>
    /\ settle = << >>
    /\ message_queue = << >>
    /\ enqueued = << >>

InitLegacyVars ==
    /\ mainpc = "init"
    /\ monpc = "idle"
    /\ execpc = "idle"
    /\ stream_running = FALSE
    /\ cancel_queue = 0
    /\ legacy_orders = 0
    /\ api_creator = "none"
    /\ api_calls = {}

NotYet == << >>

InitSplitVars ==
    /\ split_request = NotYet
    /\ split_position = NoPosition
    /\ split_orders = NotYet

\* PositionLoopMonitor.__init__; the cache holds no position yet and the
\* clock stands at a time at least loop_interval after last_success_ts = 0
InitReconVars ==
    /\ wall_clock = StartTime
    /\ recon_running = TRUE
    /\ recon_pc = "drain"
    /\ last_success_ts = 0
    /\ current_time = 0
    /\ tq_positions = << >>
    /\ redis_cache = [ s \in Symbols |-> NoPosition ]
    /\ recon_todo = << >>
    /\ redis_position = NoPosition
    /\ ever_written = {}
    /\ iter_drains = 0
    /\ cycle_started = NoneValue
    /\ completed_start = NoneValue

\* OrderMonitor.__init__ and TqDataStreamHandler.__init__: nothing tracked
InitMonVars ==
    /\ mon_pc = "drain"
    /\ tq_orders = [ id \in MonOrderIds |-> NoOrder ]
    /\ previous_orders = [ id \in MonOrderIds |-> NoOrder ]
    /\ mon_events = {}
    /\ mon_unpublished = {}
    /\ legacy_previous_orders = [ id \in MonOrderIds |-> NoOrder ]
    /\ legacy_events = {}

\* the rows as the submitting side left them: nothing filled, no trade
InitHandlerVars ==
    /\ order_history = [ status |-> "ALIVE", filled_quantity |-> 0 ]
    /\ last_order_data = NoOrder
    /\ order_event = 0
    /\ futures_row = [ status |-> "ALIVE", volume_left |-> MaxOrderVolume ]
    /\ trade_history = << >>
    /\ redelivered = FALSE

InitConsumerVars ==
    /\ hq = << >>
    /\ hlog = << >>
    /\ handler_running = TRUE

NoCancel == [ absent |-> TRUE ]
NoDrain == [ site |-> "none", deadline |-> TRUE ]

InitCancelVars ==
    /\ can_pc = "idle"
    /\ can_msg = NoCancel
    /\ exch_orders = [ id \in MonOrderIds |-> NoOrder ]
    /\ api_orders = [ id \in MonOrderIds |-> NoOrder ]
    /\ can_pending = FALSE
    /\ can_cur = ""
    /\ can_todo = << >>
    /\ can_wait = {}
    /\ can_calls = << >>
    /\ can_seen = [ id \in MonOrderIds |-> NoOrder ]
    /\ can_start = 0
    /\ can_clock = 0
    /\ can_drain = NoDrain
    /\ can_ret = NoCancel
    /\ can_count = 0

InitCodecVars ==
    /\ codec_request = NotYet
    /\ codec_result = NotYet

InitExt2Vars == InitConsumerVars /\ InitCancelVars /\ InitCodecVars

\* PositionMonitor.__init__: previous_positions = {}
InitPosVars ==
    /\ pos_before = << >>
    /\ pos_live = << >>
    /\ previous_positions = << >>
    /\ pos_updates = << >>

\* None where an account dict is expected
NoAccount == [ absent |-> TRUE ]

\* the keys _account_changed compares
AccountKeys == { "balance", "available", "margin", "position_profit" }

\* AccountMonitor.__init__: previous_account = None
InitAcctVars ==
    /\ account = [ key \in AccountKeys |-> 0 ]
    /\ previous_account = NoAccount
    /\ account_update = NoAccount

InitExt3Vars == InitPosVars /\ InitAcctVars /\ spc = "idle"

InitExtVars ==
    /\ InitSplitVars /\ InitReconVars /\ InitMonVars /\ InitHandlerVars
    /\ InitExt2Vars /\ InitExt3Vars

InitRest ==
    /\ InitSubmitVars /\ InitBusVars /\ InitWorkerVars /\ InitLegacyVars
    /\ InitExtVars

\* the Order Submitter on the blocking consumer
InitSubmit == now \in ClockSamples /\ InitRest

NextSubmit == Tick(ClockSamples) \/ Publish \/ OnMessage \/ ConsumerStop

SpecSubmit == InitSubmit /\ [][NextSubmit]_vars

\* the dual-loop skeleton
Init == now \in WorkerClockSamples /\ InitRest

Next ==
    \/ Tick(WorkerClockSamples)
    \/ BusConnect \/ BusBackoff \/ BusReceive(MaxDeliver) \/ BusSettle \/ BusStop
    \/ WorkerStart \/ WorkerDrain(MaxDrains) \/ WorkerPoll \/ WorkerExit
    \/ WorkerCleanup \/ WorkerClose
    \/ HeartbeatWorkerDied \/ Shutdown

Spec == Init /\ [][Next]_vars

\* the dual-loop skeleton from run() to the exit of the process; the time of
\* day is that of the start, inside or outside trading time
NextLife ==
    \/ BusConnect \/ BusBackoff \/ BusReceive(MaxLifeDeliver) \/ BusSettle
    \/ BusStop
    \/ WorkerStart \/ WorkerDrain(MaxLifeDrains) \/ WorkerPoll \/ WorkerExit
    \/ WorkerCleanup \/ WorkerClose
    \/ HeartbeatWorkerDied \/ HeartbeatStop \/ AsyncTasksEnd
    \/ SignalHandler \/ RunFinally \/ ProcessExit

SpecLife == Init /\ [][NextLife]_vars

\* the dual-loop skeleton with shutdown() called at any moment from the
\* signal handler
NextShutdown ==
    \/ BusConnect \/ BusBackoff \/ BusReceive(MaxLifeDeliver) \/ BusSettle
    \/ BusStop
    \/ WorkerStart \/ WorkerDrain(MaxLifeDrains) \/ WorkerPoll \/ WorkerExit
    \/ WorkerCleanup \/ WorkerClose
    \/ ShutdownCall \/ JoinReturn \/ JoinTimeout

SpecShutdown == Init /\ [][NextShutdown]_vars

\* the event loop runs its tasks and the main thread runs on
FairLife ==
    /\ WF_vars(HeartbeatWorkerDied) /\ WF_vars(HeartbeatStop)
    /\ WF_vars(BusSettle) /\ WF_vars(BusStop)
    /\ WF_vars(AsyncTasksEnd)

SpecLifeFair == SpecLife /\ FairLife

\* the dual-loop skeleton while the worker has not dispatched anything yet and
\* the hand-off queue is one short of its capacity: QueueMaxSize - 1 messages
\* were delivered, handed off and acknowledged
QueuedIds == 1..(QueueMaxSize - 1)

InitBurst ==
    /\ now \in WorkerClockSamples
    /\ InitSubmitVars /\ InitWorkerVars /\ InitLegacyVars /\ InitExtVars
    /\ bpc = "wait"
    /\ heartbeat_alive = TRUE
    /\ delivered = QueueMaxSize - 1
    /\ bcur = NoMessage
    /\ body = [ id \in QueuedIds |-> "json" ]
    /\ settle = [ id \in QueuedIds |-> "ack" ]
    /\ message_queue = [ id \in QueuedIds |-> id ]
    /\ enqueued = [ id \in QueuedIds |-> id ]

NextBurst ==
    \/ Tick(WorkerClockSamples)
    \/ BusConnect \/ BusBackoff \/ BusReceive(QueueMaxSize + MaxOverflow)
    \/ BusSettle \/ BusStop
    \/ WorkerStart \/ WorkerDrain(MaxBurstDrains) \/ WorkerPoll \/ WorkerExit
    \/ WorkerCleanup \/ WorkerClose
    \/ HeartbeatWorkerDied \/ Shutdown

SpecBurst == InitBurst /\ [][NextBurst]_vars

\* the legacy single-process client
NextLegacy ==
    \/ LegacyStreamStart \/ LegacyExecutorStart \/ LegacyInitializeState
    \/ LegacyMonitorPass \/ LegacyMonitorExit \/ LegacyOnOrderMessage \/ LegacyStop

SpecLegacy == Init /\ [][NextLegacy]_vars

(***************************************************************************)
(* split_close_order applied to one request and one answer of the cache.   *)
(***************************************************************************)
SplitRequests == { r \in SubmitRequests(1, 0) : r.timestamp = NoneValue }

SplitPositions ==
    [ absent : {FALSE}, pos_long_today : 0..MaxQty, pos_long_his : 0..MaxQty,
      pos_short_today : 0..MaxQty, pos_short_his : 0..MaxQty ]

InitSplit ==
    /\ now \in { sessions[1].start }
    /\ InitSubmitVars /\ InitBusVars /\ InitWorkerVars /\ InitLegacyVars
    /\ split_request \in SplitRequests
    /\ split_position \in SplitPositions \cup { NoPosition }
    /\ split_orders = NotYet
    /\ InitReconVars /\ InitMonVars /\ InitHandlerVars /\ InitExt2Vars /\ InitExt3Vars

SplitCloseOrder ==
    /\ split_orders = NotYet
    /\ split_orders' = split_close_order(split_request, split_position)
    /\ UNCHANGED << now, coreVars, notSplit, split_request, split_position >>

NextSplit == SplitCloseOrder

SpecSplit == InitSplit /\ [][NextSplit]_vars

(***************************************************************************)
(* Position reconciler: PositionLoopMonitor.start and one reconciliation   *)
(* cycle, against a cache whose entries carry an expiry time.              *)
(***************************************************************************)
\* symbols the broker account may hold; the universe is Symbols
BrokerSymbols == { "SHFE.rb2505" }

\* a position object of the broker session
TqPositionObjects ==
    { [ pos_long |-> q, pos_short |-> 0, pos_long_today |-> q, pos_long_his |-> 0,
        pos_short_today |-> 0, pos_short_his |-> 0 ] : q \in 0..MaxHeld }

\* FullPosition.from_tqsdk_position(pos)
from_tqsdk_position(pos) ==
    [ pos_long |-> pos.pos_long, pos_short |-> pos.pos_short,
      pos |-> pos.pos_long - pos.pos_short,
      pos_long_today |-> pos.pos_long_today, pos_long_his |-> pos.pos_long_his,
      pos_short_today |-> pos.pos_short_today, pos_short_his |-> pos.pos_short_his ]

\* FullPosition.zero()
zero ==
    [ pos_long |-> 0, pos_short |-> 0, pos |-> 0, pos_long_today |-> 0,
      pos_long_his |-> 0, pos_short_today |-> 0, pos_short_his |-> 0 ]

\* FullPosition.equals(other), other not None
equals(self, other) ==
    /\ self.pos_long = other.pos_long
    /\ self.pos_short = other.pos_short
    /\ self.pos = other.pos
    /\ self.pos_long_today = other.pos_long_today
    /\ self.pos_long_his = other.pos_long_his
    /\ self.pos_short_today = other.pos_short_today
    /\ self.pos_short_his = other.pos_short_his

\* the key of a symbol holds a value at time t
Present(cache, symbol, t) ==
    cache[symbol] # NoPosition /\ t < cache[symbol].expires

\* RedisClient.get_full_position at time t: the value, or NoPosition for None
cached_position(cache, symbol, t) ==
    IF Present(cache, symbol, t) THEN cache[symbol].value ELSE NoPosition

\* RedisClient.set_full_position at time t: the value with TTL POSITION_TTL
set_full_position(cache, symbol, position, t) ==
    [ cache EXCEPT ![symbol] = [ value |-> position, expires |-> t + POSITION_TTL ] ]

\* RedisClient.refresh_position_ttl at time t: a new TTL for a key that
\* holds a value, nothing for a key that holds none
refresh_position_ttl(cache, symbol, t) ==
    IF Present(cache, symbol, t)
    THEN [ cache EXCEPT ![symbol].expires = t + POSITION_TTL ]
    ELSE [ cache EXCEPT ![symbol] = NoPosition ]

\* _reconcile_position after its read returned redis_pos, the writes at time t
reconcile_position(cache, symbol, tq_position, redis_pos, t) ==
    IF redis_pos = NoPosition
    THEN set_full_position(cache, symbol, tq_position, t)
    ELSE IF equals(tq_position, redis_pos)
    THEN refresh_position_ttl(cache, symbol, t)
    ELSE set_full_position(cache, symbol, tq_position, t)

\* _ensure_position_exists after its read returned redis_pos
ensure_position_exists(cache, symbol, redis_pos, t) ==
    IF redis_pos = NoPosition
    THEN set_full_position(cache, symbol, zero, t)
    ELSE refresh_position_ttl(cache, symbol, t)

\* the gate of start(): ts_gap >= self.loop_interval
GateOpen_Always(ts_gap) == ts_gap >= 0

GateOpen(ts_gap) == ts_gap >= POSITION_LOOP_INTERVAL_SECONDS

RECURSIVE SetToSeq(_)
SetToSeq(S) ==
    IF S = {} THEN << >>
    ELSE LET x == CHOOSE y \in S : TRUE IN << x >> \o SetToSeq(S \ { x })

\* the calls of _reconciliation_cycle, in order: every broker symbol is
\* reconciled, then every universe symbol not among them is ensured
CycleCalls(positions, universe_symbols) ==
    LET processed == DOMAIN positions
        reconcile == SetToSeq({ [ symbol |-> x, call |-> "reconcile" ] : x \in processed })
        ensure == SetToSeq({ [ symbol |-> x, call |-> "ensure" ] :
                             x \in universe_symbols \ processed })
    IN reconcile \o ensure

\* position dicts the session may show after a drain: a symbol once shown stays
TqPositionsAfter(positions) ==
    { p \in UNION { [ S -> TqPositionObjects ] : S \in SUBSET BrokerSymbols } :
         DOMAIN positions \subseteq DOMAIN p }

\* time passes: any number of seconds while wait_update blocks, and the
\* clock may pass to the next second between a read of the cache and the
\* write that follows it
ReconTick ==
    /\ recon_pc \in { "drain", "write" }
    /\ wall_clock < MaxClock
    /\ wall_clock' = wall_clock + 1
    /\ recon_pc' = IF recon_pc = "write" THEN "write_late" ELSE recon_pc
    /\ UNCHANGED << now, coreVars, notRecon, recon_running, last_success_ts,
                    current_time, tq_positions, redis_cache, recon_todo,
                    redis_position, ever_written, iter_drains, cycle_started,
                    completed_start >>

\* self.api.wait_update() returns or raises
ReconDrain ==
    /\ recon_running
    /\ recon_pc = "drain"
    /\ iter_drains' = iter_drains + 1
    /\ \E raised \in BOOLEAN, p \in TqPositionsAfter(tq_positions) :
          IF raised
          THEN recon_pc' = "sleep" /\ tq_positions' = tq_positions
          ELSE recon_pc' = "gate" /\ tq_positions' = p
    /\ UNCHANGED << now, coreVars, notRecon, wall_clock, recon_running, last_success_ts,
                    current_time, redis_cache, recon_todo, redis_position,
                    ever_written, cycle_started, completed_start >>

\* current_time = time.time(); the gate; a cycle starts or the iteration ends
ReconGate ==
    /\ recon_pc = "gate"
    /\ IF GateOpen(wall_clock - last_success_ts)
       THEN recon_pc' = "cycle" /\ current_time' = wall_clock
            /\ cycle_started' = wall_clock /\ iter_drains' = iter_drains
       ELSE recon_pc' = "drain" /\ current_time' = 0
            /\ cycle_started' = cycle_started /\ iter_drains' = 0
    /\ UNCHANGED << now, coreVars, notRecon, wall_clock, recon_running, last_success_ts,
                    tq_positions, redis_cache, recon_todo, redis_position,
                    ever_written, completed_start >>

\* load_universe() and api.get_position()
ReconCycleBegin ==
    /\ recon_pc = "cycle"
    /\ recon_todo' = CycleCalls(tq_positions, Symbols)
    /\ recon_pc' = "read"
    /\ UNCHANGED << now, coreVars, notRecon, wall_clock, recon_running, last_success_ts,
                    current_time, tq_positions, redis_cache, redis_position,
                    ever_written, iter_drains, cycle_started, completed_start >>

\* redis_position = self.redis.get_full_position(...) of the next call
ReconRead ==
    /\ recon_pc = "read"
    /\ recon_todo # << >>
    /\ redis_position' = cached_position(redis_cache, Head(recon_todo).symbol, wall_clock)
    /\ recon_pc' = "write"
    /\ UNCHANGED << now, coreVars, notRecon, wall_clock, recon_running, last_success_ts,
                    current_time, tq_positions, redis_cache, recon_todo,
                    ever_written, iter_drains, cycle_started, completed_start >>

\* the rest of _reconcile_position or of _ensure_position_exists
ReconWrite ==
    /\ recon_pc \in { "write", "write_late" }
    /\ LET symbol == Head(recon_todo).symbol
       IN /\ redis_cache' =
               IF Head(recon_todo).call = "reconcile"
               THEN reconcile_position(redis_cache, symbol,
                        from_tqsdk_position(tq_positions[symbol]),
                        redis_position, wall_clock)
               ELSE ensure_position_exists(redis_cache, symbol, redis_position,
                                           wall_clock)
          /\ ever_written' = IF redis_cache'[symbol] # NoPosition
                             THEN ever_written \cup { symbol } ELSE ever_written
    /\ recon_todo' = Tail(recon_todo)
    /\ redis_position' = NoPosition
    /\ recon_pc' = "read"
    /\ UNCHANGED << now, coreVars, notRecon, wall_clock, recon_running, last_success_ts,
                    current_time, tq_positions, iter_drains, cycle_started,
                    completed_start >>

\* the cycle returned: self.last_success_ts = current_time
ReconCycleFinish ==
    /\ recon_pc = "read"
    /\ recon_todo = << >>
    /\ last_success_ts' = current_time
    /\ completed_start' = cycle_started
    /\ current_time' = 0
    /\ cycle_started' = NoneValue
    /\ recon_pc' = "drain"
    /\ iter_drains' = 0
    /\ UNCHANGED << now, coreVars, notRecon, wall_clock, recon_running,
                    tq_positions, redis_cache, recon_todo, redis_position,
                    ever_written >>

\* load_universe or a cache call raises inside the cycle
ReconCycleRaise ==
    /\ recon_pc \in { "cycle", "read", "write", "write_late" }
    /\ recon_pc = "read" => recon_todo # << >>
    /\ recon_todo' = << >>
    /\ redis_position' = NoPosition
    /\ current_time' = 0
    /\ cycle_started' = NoneValue
    /\ recon_pc' = "sleep"
    /\ UNCHANGED << now, coreVars, notRecon, wall_clock, recon_running, last_success_ts,
                    tq_positions, redis_cache, ever_written, iter_drains,
                    completed_start >>

\* except Exception: time.sleep(1) while running
ReconSleep ==
    /\ recon_pc = "sleep"
    /\ wall_clock < MaxClock
    /\ wall_clock' = IF recon_running THEN wall_clock + 1 ELSE wall_clock
    /\ recon_pc' = "drain"
    /\ iter_drains' = 0
    /\ UNCHANGED << now, coreVars, notRecon, recon_running, last_success_ts,
                    current_time, tq_positions, redis_cache, recon_todo,
                    redis_position, ever_written, cycle_started, completed_start >>

\* PositionLoopMonitor.stop
ReconStop ==
    /\ recon_running
    /\ recon_pc # "stopped"
    /\ recon_running' = FALSE
    /\ UNCHANGED << now, coreVars, notRecon, wall_clock, recon_pc, last_success_ts,
                    current_time, tq_positions, redis_cache, recon_todo,
                    redis_position, ever_written, iter_drains, cycle_started,
                    completed_start >>

\* while self.running: the loop ends
ReconExit ==
    /\ recon_pc = "drain"
    /\ ~recon_running
    /\ recon_pc' = "stopped"
    /\ UNCHANGED << now, coreVars, notRecon, wall_clock, recon_running, last_success_ts,
                    current_time, tq_positions, redis_cache, recon_todo,
                    redis_position, ever_written, iter_drains, cycle_started,
                    completed_start >>

InitRecon ==
    /\ now \in { sessions[1].start }
    /\ InitSubmitVars /\ InitBusVars /\ InitWorkerVars /\ InitLegacyVars
    /\ InitSplitVars
    /\ InitReconVars
    /\ InitMonVars
    /\ InitHandlerVars /\ InitExt2Vars /\ InitExt3Vars

NextRecon ==
    \/ ReconTick \/ ReconDrain \/ ReconGate \/ ReconCycleBegin \/ ReconRead
    \/ ReconWrite \/ ReconCycleFinish \/ ReconCycleRaise \/ ReconSleep
    \/ ReconStop \/ ReconExit

SpecRecon == InitRecon /\ [][NextRecon]_vars

(***************************************************************************)
(* Order monitors: the tick of OrderMonitor (services/tq_order_monitor)    *)
(* and the tick of the legacy TqDataStreamHandler, on the same orders.     *)
(***************************************************************************)
\* order objects of the broker session
TqOrderObjects ==
    { o \in [ status : { "ALIVE", "FINISHED" }, volume_orign : 1..MaxOrderVolume,
              volume_left : 0..MaxOrderVolume, exchange_order_id : { "", "X1" },
              exchange_id : { "", "SHFE" }, last_msg : { "", "msg" } ] :
         o.volume_left <= o.volume_orign }

\* what one drain can make of an order: a new order appears in any state, a
\* live one is filled further, finished, given its exchange ids; a finished
\* one changes no more
OrderAfter(o) ==
    IF o = NoOrder THEN TqOrderObjects \cup { NoOrder }
    ELSE IF o.status = "FINISHED" THEN { o }
    ELSE { n \in TqOrderObjects :
              /\ n.volume_orign = o.volume_orign
              /\ n.volume_left <= o.volume_left
              /\ o.exchange_order_id # "" => n.exchange_order_id = o.exchange_order_id
              /\ o.exchange_id # "" => n.exchange_id = o.exchange_id }

\* current_state of _check_order_updates
current_state(order) ==
    [ status |-> order.status, volume_left |-> order.volume_left,
      volume_orign |-> order.volume_orign,
      exchange_order_id |-> order.exchange_order_id,
      exchange_id |-> order.exchange_id ]

\* _order_changed that leaves the exchange ids out, as the legacy test does
order_changed_NoExchangeIds(prev, curr) ==
    \/ prev.status # curr.status
    \/ prev.volume_left # curr.volume_left
    \/ prev.volume_orign # curr.volume_orign

\* OrderMonitor._order_changed(prev, curr), prev not None
order_changed(prev, curr) ==
    \/ prev.status # curr.status
    \/ prev.volume_left # curr.volume_left
    \/ prev.volume_orign # curr.volume_orign
    \/ prev.exchange_order_id # curr.exchange_order_id
    \/ prev.exchange_id # curr.exchange_id

\* OrderMonitor._determine_event_type(order)
determine_event_type(order) ==
    IF order.status = "FINISHED"
    THEN IF order.volume_left = 0 THEN "COMPLETE_FILL" ELSE "CANCELED"
    ELSE IF order.status = "ALIVE"
    THEN IF order.volume_left < order.volume_orign THEN "PARTIAL_FILL" ELSE "NEW"
    ELSE order.status

\* the event type of TqDataStreamHandler._check_order_updates
legacy_event_type(order) ==
    LET filled_qty == order.volume_orign - order.volume_left
    IN IF order.status = "FINISHED"
       THEN IF filled_qty = order.volume_orign THEN "COMPLETE_FILL" ELSE "PARTIAL_FILL"
       ELSE order.status

\* self.api.wait_update(): the session updates an order in place, or
\* returns for some other data
MonDrain ==
    /\ mon_pc = "drain"
    /\ \E id \in MonOrderIds :
          \E n \in OrderAfter(tq_orders[id]) :
             tq_orders' = [ tq_orders EXCEPT ![id] = n ]
    /\ mon_pc' = "check"
    /\ mon_unpublished' = {}
    /\ UNCHANGED << now, coreVars, notMon, previous_orders, mon_events,
                    legacy_previous_orders, legacy_events >>

\* OrderUpdatePublisher.publish(update), the on_update of the service:
\* RabbitMQPublisher.publish raises or not; the exception is logged
publish(publish_raises) == IF publish_raises THEN "logged" ELSE "published"

\* OrderMonitor._check_order_updates(on_update): one tick; failed are the
\* orders for whose update basic_publish raised
CheckOrderUpdates ==
    /\ mon_pc = "check"
    /\ LET emitted == { id \in MonOrderIds :
                          /\ tq_orders[id] # NoOrder
                          /\ \/ previous_orders[id] = NoOrder
                             \/ order_changed(previous_orders[id],
                                              current_state(tq_orders[id])) }
       IN /\ mon_events' =
               { [ order_id |-> id, event_type |-> determine_event_type(tq_orders[id]),
                   status |-> tq_orders[id].status,
                   volume_left |-> tq_orders[id].volume_left,
                   volume_orign |-> tq_orders[id].volume_orign ] : id \in emitted }
          /\ previous_orders' =
               [ id \in MonOrderIds |->
                   IF id \in emitted THEN current_state(tq_orders[id])
                   ELSE previous_orders[id] ]
          /\ \E failed \in SUBSET emitted :
                mon_unpublished' =
                   { id \in emitted : publish(id \in failed) # "published" }
    /\ mon_pc' = "legacy_check"
    /\ UNCHANGED << now, coreVars, notMon, tq_orders, legacy_previous_orders,
                    legacy_events >>

\* TqDataStreamHandler._check_order_updates: one tick of the legacy monitor
LegacyCheckOrderUpdates ==
    /\ mon_pc = "legacy_check"
    /\ LET status_changed ==
               { id \in MonOrderIds :
                   /\ tq_orders[id] # NoOrder
                   /\ \/ legacy_previous_orders[id] = NoOrder
                      \/ legacy_previous_orders[id].status # tq_orders[id].status
                      \/ legacy_previous_orders[id].volume_left # tq_orders[id].volume_left }
       IN /\ legacy_events' =
               { [ order_id |-> id, event_type |-> legacy_event_type(tq_orders[id]),
                   status |-> tq_orders[id].status,
                   volume_left |-> tq_orders[id].volume_left,
                   volume_orign |-> tq_orders[id].volume_orign ] : id \in status_changed }
          /\ legacy_previous_orders' =
               [ id \in MonOrderIds |->
                   IF id \in status_changed
                   THEN [ status |-> tq_orders[id].status,
                          volume_left |-> tq_orders[id].volume_left,
                          volume_orign |-> tq_orders[id].volume_orign ]
                   ELSE legacy_previous_orders[id] ]
    /\ mon_pc' = "drain"
    /\ UNCHANGED << now, coreVars, notMon, tq_orders, previous_orders, mon_events,
                    mon_unpublished >>

InitMonitor ==
    /\ now \in { sessions[1].start }
    /\ InitSubmitVars /\ InitBusVars /\ InitWorkerVars /\ InitLegacyVars
    /\ InitSplitVars /\ InitReconVars
    /\ InitMonVars
    /\ InitHandlerVars /\ InitExt2Vars /\ InitExt3Vars

NextMonitor == MonDrain \/ CheckOrderUpdates \/ LegacyCheckOrderUpdates

SpecMonitor == InitMonitor /\ [][NextMonitor]_vars

(***************************************************************************)
(* Order handlers: DataProcessor.process_order_update on an order_history  *)
(* row, OrderPostgresWriter.write_order_update on an                       *)
(* order_history_futures_chn row and the trade_history_futures_chn table.  *)
(***************************************************************************)
OrderStatuses == { "ALIVE", "PARTIALLY_FILLED", "FINISHED", "CANCELED" }

\* the order_data of process_order_update
LegacyOrderData == [ status : OrderStatuses, filled_quantity : 0..MaxFilled ]

\* the UPDATE of process_order_update with status always taken from the update
process_order_update_Overwrite(row, order_data) ==
    [ status |-> order_data.status,
      filled_quantity |-> order_data.filled_quantity ]

\* the UPDATE of process_order_update: the two CASE expressions
process_order_update(row, order_data) ==
    [ status |-> IF row.status = "PARTIALLY_FILLED" /\ order_data.status = "CANCELED"
                 THEN "PARTIALLY_FILLED" ELSE order_data.status,
      filled_quantity |-> IF order_data.filled_quantity > row.filled_quantity
                          THEN order_data.filled_quantity ELSE row.filled_quantity ]

\* trade_records of an update: trade_id -> trade_data
TradeIds == { "t1", "t2", "t3" }
TradeData == [ exchange_trade_id : { "e1" }, price : { 3500, 3501 } ]
TradeRecords == UNION { [ S -> TradeData ] : S \in SUBSET TradeIds }

\* the OrderHistoryFuturesChn handed to write_order_update
FuturesOrderData ==
    [ status : { "ALIVE", "FINISHED" }, volume_left : 0..MaxOrderVolume,
      trade_records : TradeRecords ]

\* the SELECT of _write_trade_records that finds nothing
trade_exists_Never(rows, trade_id) == FALSE

\* SELECT 1 FROM trade_history_futures_chn WHERE trade_id = :trade_id
trade_exists(rows, trade_id) ==
    \E i \in 1..Len(rows) : rows[i].trade_id = trade_id

\* _write_trade_records: the trades of the dict, one after the other
RECURSIVE write_trade_records(_, _, _)
write_trade_records(rows, trade_records, todo) ==
    IF todo = << >> THEN rows
    ELSE LET trade_id == Head(todo)
             trade == [ trade_id |-> trade_id,
                        exchange_trade_id |-> trade_records[trade_id].exchange_trade_id,
                        price |-> trade_records[trade_id].price ]
         IN write_trade_records(
               IF trade_exists(rows, trade_id) THEN rows ELSE Append(rows, trade),
               trade_records, Tail(todo))

\* DataProcessor.process_order_update(order_data): the UPDATE and the
\* order_event row in one transaction, or an exception and no change
ProcessOrderUpdate ==
    /\ order_event < MaxEvents
    /\ \E order_data \in LegacyOrderData, raised \in BOOLEAN :
          IF raised
          THEN UNCHANGED << order_history, last_order_data, order_event >>
          ELSE /\ order_history' = process_order_update(order_history, order_data)
               /\ last_order_data' = order_data
               /\ order_event' = order_event + 1
    /\ UNCHANGED << now, coreVars, notHandler, futures_row, trade_history,
                    redelivered >>

\* OrderPostgresWriter.write_order_update(order_data): the UPDATE and the
\* trade records in one transaction, or an exception and a rollback
WriteOrderUpdate ==
    /\ \E order_data \in FuturesOrderData, raised \in BOOLEAN :
          IF raised
          THEN UNCHANGED << futures_row, trade_history, redelivered >>
          ELSE /\ futures_row' = [ status |-> order_data.status,
                                   volume_left |-> order_data.volume_left ]
               /\ redelivered' =
                    (redelivered \/ \E t \in DOMAIN order_data.trade_records :
                                       \E i \in 1..Len(trade_history) :
                                          trade_history[i].trade_id = t)
               /\ trade_history' =
                    write_trade_records(trade_history, order_data.trade_records,
                                        SetToSeq(DOMAIN order_data.trade_records))
    /\ UNCHANGED << now, coreVars, notHandler, order_history, last_order_data,
                    order_event >>

InitHandler ==
    /\ now \in { sessions[1].start }
    /\ InitSubmitVars /\ InitBusVars /\ InitWorkerVars /\ InitLegacyVars
    /\ InitSplitVars /\ InitReconVars /\ InitMonVars
    /\ InitHandlerVars /\ InitExt2Vars /\ InitExt3Vars

NextHandler == WriteOrderUpdate

SpecHandler == InitHandler /\ [][NextHandler]_vars

NextLegacyHandler == ProcessOrderUpdate

SpecLegacyHandler == InitHandler /\ [][NextLegacyHandler]_vars

(***************************************************************************)
(* The Handlers on the blocking consumer: AccountHandlerService,           *)
(* PositionHandlerService and OrderHandlerService each pass process_update *)
(* to RabbitMQConsumer.consume.                                            *)
(***************************************************************************)
HandlerKinds == { "account", "position", "order" }

HandlerMessages == [ kind : HandlerKinds, badjson : BOOLEAN ]

\* AccountRedisWriter.write_account_update: set_account raises or not
write_account_update(set_raises) == IF set_raises THEN "False" ELSE "True"

\* PositionRedisWriter.write_position_update: set_position raises or not
write_position_update(set_raises) == IF set_raises THEN "False" ELSE "True"

\* OrderPostgresWriter.write_order_update as to its return value: the
\* UPDATE, the trade records or the commit raises, or none does
write_order_update(db_raises) == IF db_raises THEN "False" ELSE "True"

\* process_update(message) of the three Handler services: the writer's
\* return value; the except clause turns an exception into False
process_update(kind, write_raises) ==
    CASE kind = "account" -> write_account_update(write_raises)
      [] kind = "position" -> write_position_update(write_raises)
      [] kind = "order" -> write_order_update(write_raises)

\* on_message with an except clause that drops the message
basic_answer_DropOnRaise(running, badjson, outcome) ==
    IF ~running THEN "nack_requeue"
    ELSE IF badjson THEN "nack"
    ELSE IF outcome = "True" THEN "ack"
    ELSE "nack"

\* the answer on_message gives the bus: running, json.loads and the
\* callback's outcome decide it
basic_answer(running, badjson, outcome) ==
    IF ~running THEN "nack_requeue"
    ELSE IF badjson THEN "nack"                      \* json.JSONDecodeError
    ELSE IF outcome = "raised" THEN "nack_requeue"   \* except Exception
    ELSE IF outcome = "True" THEN "ack"
    ELSE "nack"

\* an upstream service publishes an update to the Handler's queue
HandlerPublish ==
    /\ Len(hq) + Len(hlog) < MaxHandled
    /\ \E m \in HandlerMessages : hq' = Append(hq, m)
    /\ UNCHANGED << now, coreVars, notConsumer, hlog, handler_running >>

\* on_message for the oldest message of the queue; a message answered with
\* requeue goes back to the queue, any other answer removes it
HandlerOnMessage ==
    /\ hq # << >>
    /\ Len(hlog) < MaxHandled
    /\ \E write_raises \in BOOLEAN :
          LET m == Head(hq)
              decoded == handler_running /\ ~m.badjson
              outcome == process_update(m.kind, write_raises)
              verdict == basic_answer(handler_running, m.badjson, outcome)
          IN  /\ ~decoded => ~write_raises
              /\ hlog' = Append(hlog, [ kind |-> m.kind, badjson |-> m.badjson,
                                        running |-> handler_running,
                                        write_failed |-> write_raises,
                                        outcome |-> IF decoded THEN outcome
                                                    ELSE "not_called",
                                        verdict |-> verdict ])
              /\ hq' = IF verdict = "nack_requeue"
                       THEN Append(Tail(hq), m) ELSE Tail(hq)
    /\ UNCHANGED << now, coreVars, notConsumer, handler_running >>

\* signal_handler: self.consumer.stop()
HandlerStop ==
    /\ handler_running
    /\ handler_running' = FALSE
    /\ UNCHANGED << now, coreVars, notConsumer, hq, hlog >>

NextConsumer == HandlerPublish \/ HandlerOnMessage \/ HandlerStop

\* what a callback handed to consume() may do: return a true value, return
\* a false value (None included), or raise an Exception
CallbackOutcomes == { "True", "False", "raised" }

\* on_message of RabbitMQConsumer.consume(callback) for the oldest message
\* of the queue, for any callback
ConsumerOnMessage ==
    /\ hq # << >>
    /\ Len(hlog) < MaxHandled
    /\ \E outcome \in CallbackOutcomes :
          LET m == Head(hq)
              called == handler_running /\ ~m.badjson
              verdict == basic_answer(handler_running, m.badjson, outcome)
          IN  /\ ~called => outcome = "True"
              /\ hlog' = Append(hlog, [ kind |-> m.kind, badjson |-> m.badjson,
                                        running |-> handler_running,
                                        write_failed |-> FALSE,
                                        outcome |-> IF called THEN outcome
                                                    ELSE "not_called",
                                        verdict |-> verdict ])
              /\ hq' = IF verdict = "nack_requeue"
                       THEN Append(Tail(hq), m) ELSE Tail(hq)
    /\ UNCHANGED << now, coreVars, notConsumer, handler_running >>

NextConsume == HandlerPublish \/ ConsumerOnMessage \/ HandlerStop

SpecConsume == InitHandler /\ [][NextConsume]_vars

SpecConsumer == InitHandler /\ [][NextConsumer]_vars

(***************************************************************************)
(* The Order Canceller: process_order_cancel and the three functions of    *)
(* executor.py, called by the Worker Loop of a session-owning worker.  The *)
(* session's view of the orders (api.get_order) changes only inside        *)
(* wait_update; a wait_update without deadline returns when the broker has *)
(* sent an update, and not before.  order.is_dead implies status FINISHED, *)
(* so the model keeps the status alone.                                    *)
(***************************************************************************)
CancelOrders == [ status : { "ALIVE", "FINISHED" } ]

\* order.instrument_id of the two orders
InstrumentOf(id) == IF id = "o1" THEN "rb2505" ELSE "m2505"

\* normalize_instrument_id(code): code.split(".", 1)[-1]
normalize_instrument_id(code) ==
    CASE code = "SHFE.rb2505" -> "rb2505"
      [] code = "DCE.m2505" -> "m2505"
      [] OTHER -> code

CancelMessages ==
    { [ action |-> "SUBMIT", type |-> "order_id", order_id |-> "o1",
        contract_code |-> "" ] }
    \cup [ action : { "CANCEL" }, type : { "order_id" },
           order_id : MonOrderIds \cup { "" }, contract_code : { "" } ]
    \cup [ action : { "CANCEL" }, type : { "contract_code" },
           order_id : { "" }, contract_code : { "", "SHFE.rb2505", "m2505" } ]
    \cup [ action : { "CANCEL" }, type : { "all", "symbol" },
           order_id : { "" }, contract_code : { "" } ]

IsAlive(orders, id) == orders[id] # NoOrder /\ orders[id].status = "ALIVE"

\* the handler has returned ret; raised tells that an except clause was taken
Done(ret, calls, raised) ==
    [ pc |-> "idle", cur |-> "", todo |-> << >>, wait |-> {}, calls |-> calls,
      ret |-> ret, start |-> 0, raised |-> raised ]

\* the handler is inside the wait_update of the loop named pc
Blocked(pc, cur, todo, wait, calls, t) ==
    [ pc |-> pc, cur |-> cur, todo |-> todo, wait |-> wait, calls |-> calls,
      ret |-> "none", start |-> t, raised |-> FALSE ]

\* cancel_order that returns once the cancel request is sent
cancel_order_NoWait(orders, order_id, raising) ==
    IF orders[order_id] = NoOrder THEN Done("False", << >>, FALSE)
    ELSE IF orders[order_id].status # "ALIVE" THEN Done("True", << >>, FALSE)
    ELSE Done("True", << order_id >>, FALSE)

\* cancel_order(api, order_id) up to its first wait_update; raising are the
\* orders whose api.cancel_order raises
cancel_order(orders, order_id, raising) ==
    IF orders[order_id] = NoOrder THEN Done("False", << >>, FALSE)
    ELSE IF orders[order_id].status # "ALIVE" THEN Done("True", << >>, FALSE)
    ELSE IF order_id \in raising THEN Done("False", << order_id >>, TRUE)
    ELSE Blocked("wait_one", order_id, << >>, {}, << order_id >>, 0)

\* the for loop of cancel_all from the order at the head of todo, up to the
\* next wait_update or the return
RECURSIVE cancel_all_loop(_, _, _, _, _)
cancel_all_loop(orders, todo, calls, raising, t) ==
    IF todo = << >> THEN Done("True", calls, FALSE)
    ELSE LET order == Head(todo)
             called == Append(calls, order)
         IN  IF order \in raising \/ ~IsAlive(orders, order)
             THEN cancel_all_loop(orders, Tail(todo), called, raising, t)
             ELSE Blocked("wait_all", order, Tail(todo), {}, called, t)

\* cancel_all(api, None) up to its first wait_update
cancel_all(orders, raising, t) ==
    cancel_all_loop(orders,
                    SetToSeq({ id \in MonOrderIds : IsAlive(orders, id) }),
                    << >>, raising, t)

\* the cancel calls of cancel_orders_by_contract, up to the first that raises
RECURSIVE CancelEach(_, _, _)
CancelEach(todo, calls, raising) ==
    IF todo = << >> THEN calls
    ELSE IF Head(todo) \in raising THEN Append(calls, Head(todo))
    ELSE CancelEach(Tail(todo), Append(calls, Head(todo)), raising)

\* cancel_orders_by_contract(api, contract_code) up to its first wait_update
cancel_orders_by_contract(orders, contract_code, raising) ==
    LET alive_orders ==
            { id \in MonOrderIds :
                 /\ IsAlive(orders, id)
                 /\ normalize_instrument_id(InstrumentOf(id))
                       = normalize_instrument_id(contract_code) }
        calls == CancelEach(SetToSeq(alive_orders), << >>, raising)
    IN  IF alive_orders = {} THEN Done("True", << >>, FALSE)
        ELSE IF alive_orders \cap raising # {} THEN Done("False", calls, TRUE)
        ELSE Blocked("wait_contract", "", << >>, alive_orders, calls, 0)

\* process_order_cancel(api, message) up to its first wait_update
process_order_cancel(message, orders, raising, t) ==
    IF message.action # "CANCEL" THEN Done("True", << >>, FALSE)
    ELSE IF message.type = "contract_code"
    THEN IF message.contract_code = "" THEN Done("False", << >>, FALSE)
         ELSE cancel_orders_by_contract(orders, message.contract_code, raising)
    ELSE IF message.type = "order_id"
    THEN IF message.order_id = "" THEN Done("False", << >>, FALSE)
         ELSE cancel_order(orders, message.order_id, raising)
    ELSE IF message.type = "all" THEN cancel_all(orders, raising, t)
    ELSE Done("False", << >>, FALSE)

\* the timeout check of cancel_all's while loop
TimedOut(t, start_time) == t - start_time > CANCEL_ALL_TIMEOUT

\* the handler after the wait_update it was blocked in has returned with
\* the view orders, or has raised
AfterDrain(pc, orders, raised, raising, t) ==
    CASE pc = "wait_one" ->
           IF raised THEN Done("False", can_calls, TRUE)
           ELSE IF IsAlive(orders, can_cur)
           THEN Blocked("wait_one", can_cur, << >>, {}, can_calls, 0)
           ELSE Done("True", can_calls, FALSE)
      [] pc = "wait_all" ->
           IF raised
           THEN cancel_all_loop(orders, can_todo, can_calls, raising, t)
           ELSE IF IsAlive(orders, can_cur) /\ ~TimedOut(t, can_start)
           THEN Blocked("wait_all", can_cur, can_todo, {}, can_calls, can_start)
           ELSE cancel_all_loop(orders, can_todo, can_calls, raising, t)
      [] pc = "wait_contract" ->
           IF raised THEN Done("False", can_calls, TRUE)
           ELSE IF \E id \in can_wait : IsAlive(orders, id)
           THEN Blocked("wait_contract", "", << >>, can_wait, can_calls, 0)
           ELSE Done("True", can_calls, FALSE)

\* the handler's variables after a step that left it in state h
Continue(h, message, seen, orders) ==
    /\ can_pc' = h.pc
    /\ can_cur' = h.cur
    /\ can_todo' = h.todo
    /\ can_wait' = h.wait
    /\ can_calls' = h.calls
    /\ can_start' = h.start
    /\ can_seen' = IF h.ret = "none" THEN seen ELSE [ id \in MonOrderIds |-> NoOrder ]
    /\ can_msg' = IF h.ret = "none" THEN message ELSE NoCancel
    /\ can_drain' = IF h.ret = "none"
                    THEN [ site |-> h.pc, deadline |-> FALSE ] ELSE NoDrain
    /\ can_ret' = IF h.ret = "none" THEN can_ret
                  ELSE [ msg |-> message, seen |-> seen, ret |-> h.ret,
                         calls |-> h.calls, view |-> orders,
                         raised |-> h.raised ]

\* the broker sends an update: an order appears, an order leaves ALIVE, or
\* something else than an order changes
BrokerUpdate ==
    /\ \E orders \in [ MonOrderIds -> CancelOrders \cup { NoOrder } ] :
          /\ \A id \in MonOrderIds :
                \/ orders[id] = exch_orders[id]
                \/ exch_orders[id] = NoOrder /\ orders[id] = [ status |-> "ALIVE" ]
                \/ IsAlive(exch_orders, id) /\ orders[id] = [ status |-> "FINISHED" ]
          /\ Cardinality({ id \in MonOrderIds : orders[id] # exch_orders[id] }) <= 1
          /\ exch_orders' = orders
    /\ can_pending' = TRUE
    /\ UNCHANGED << now, coreVars, notCancel, can_pc, can_msg, api_orders,
                    can_cur, can_todo, can_wait, can_calls, can_seen, can_start,
                    can_clock, can_drain, can_ret, can_count >>

\* time passes; cancel_all alone reads the clock, so the model lets it run
\* only while cancel_all waits
CancelTick ==
    /\ can_pc = "wait_all"
    /\ can_clock < MaxCancelClock
    /\ can_clock' = can_clock + 1
    /\ UNCHANGED << now, coreVars, notCancel, can_pc, can_msg, exch_orders,
                    api_orders, can_pending, can_cur, can_todo, can_wait,
                    can_calls, can_seen, can_start, can_drain, can_ret,
                    can_count >>

\* tqapi_worker_loop: wait_update(deadline=...) is called
CancelLoopDrain ==
    /\ can_pc = "idle"
    /\ can_pc' = "loop_drain"
    /\ can_drain' = [ site |-> "worker_loop", deadline |-> TRUE ]
    /\ UNCHANGED << now, coreVars, notCancel, can_msg, exch_orders, api_orders,
                    can_pending, can_cur, can_todo, can_wait, can_calls,
                    can_seen, can_start, can_clock, can_ret, can_count >>

\* it returns with the broker's update, or at its deadline without one
CancelLoopDrainReturn ==
    /\ can_pc = "loop_drain"
    /\ can_pc' = "poll"
    /\ can_drain' = NoDrain
    /\ api_orders' = IF can_pending THEN exch_orders ELSE api_orders
    /\ can_pending' = FALSE
    /\ UNCHANGED << now, coreVars, notCancel, can_msg, exch_orders, can_cur,
                    can_todo, can_wait, can_calls, can_seen, can_start,
                    can_clock, can_ret, can_count >>

\* message_queue.get_nowait() raises queue.Empty
CancelPollEmpty ==
    /\ can_pc = "poll"
    /\ can_pc' = "idle"
    /\ UNCHANGED << now, coreVars, notCancel, can_msg, exch_orders, api_orders,
                    can_pending, can_cur, can_todo, can_wait, can_calls,
                    can_seen, can_start, can_clock, can_drain, can_ret,
                    can_count >>

\* message_queue.get_nowait() returns a message and process_message_in_worker
\* calls process_order_cancel on the Worker Loop's own thread
CancelDispatch ==
    /\ can_pc = "poll"
    /\ can_count < MaxCancels
    /\ can_count' = can_count + 1
    /\ \E message \in CancelMessages, raising \in SUBSET MonOrderIds :
          Continue(process_order_cancel(message, api_orders, raising, can_clock),
                   message, api_orders, api_orders)
    /\ UNCHANGED << now, coreVars, notCancel, exch_orders, api_orders,
                    can_pending, can_clock >>

\* the wait_update() the handler is blocked in returns, or raises: the
\* call has no deadline, so it takes an update from the broker; a call
\* that raises leaves the update to the next call
CancelDrainReturn ==
    /\ can_pc \in { "wait_one", "wait_all", "wait_contract" }
    /\ can_pending
    /\ \E raised \in BOOLEAN, raising \in SUBSET MonOrderIds :
          LET orders == IF raised THEN api_orders ELSE exch_orders IN
          /\ can_pending' = raised
          /\ api_orders' = orders
          /\ Continue(AfterDrain(can_pc, orders, raised, raising, can_clock),
                      can_msg, can_seen, orders)
    /\ UNCHANGED << now, coreVars, notCancel, exch_orders, can_clock, can_count >>

InitCancel ==
    /\ now \in { sessions[1].start }
    /\ InitSubmitVars /\ InitBusVars /\ InitWorkerVars /\ InitLegacyVars
    /\ InitSplitVars /\ InitReconVars /\ InitMonVars /\ InitHandlerVars
    /\ InitExt2Vars /\ InitExt3Vars

NextCancel ==
    \/ BrokerUpdate \/ CancelTick
    \/ CancelLoopDrain \/ CancelLoopDrainReturn
    \/ CancelPollEmpty \/ CancelDispatch \/ CancelDrainReturn

SpecCancel == InitCancel /\ [][NextCancel]_vars

\* the worker's thread runs whenever it can: a call that can return does
FairCancel ==
    /\ WF_vars(CancelLoopDrain) /\ WF_vars(CancelLoopDrainReturn)
    /\ WF_vars(CancelPollEmpty \/ CancelDispatch)
    /\ WF_vars(CancelDrainReturn)
    /\ WF_vars(CancelTick)

SpecCancelFair == SpecCancel /\ FairCancel

(***************************************************************************)
(* The order request models of shared/models.py and their dictionaries.    *)
(* A dictionary is a function from its keys; None is NoneValue.            *)
(***************************************************************************)
OrderSubmitRequests ==
    [ symbol : Symbols, direction : { "BUY", "SELL" },
      offset : { "OPEN", "CLOSE", "CLOSETODAY" }, volume : 1..MaxVolume,
      order_id : { "o1" }, portfolio_id : { "p1" },
      limit_price : { NoneValue, 3500 } ]

OrderCancelRequests ==
    [ order_id : { "", "o1" }, cancel_type : { "order_id", "contract_code", "all" },
      contract_code : { "", "rb2505" }, portfolio_id : { "", "p1" } ]

\* data.get(key, default)
Get(data, key, default) == IF key \in DOMAIN data THEN data[key] ELSE default

\* OrderSubmitRequest.to_dict: asdict(self), one key per field
submit_to_dict(self) ==
    [ symbol |-> self.symbol, direction |-> self.direction,
      offset |-> self.offset, volume |-> self.volume,
      order_id |-> self.order_id, portfolio_id |-> self.portfolio_id,
      limit_price |-> self.limit_price ]

\* OrderSubmitRequest.from_dict
submit_from_dict(data) ==
    [ symbol |-> data["symbol"], direction |-> data["direction"],
      offset |-> data["offset"], volume |-> data["volume"],
      order_id |-> data["order_id"], portfolio_id |-> data["portfolio_id"],
      limit_price |-> Get(data, "limit_price", NoneValue) ]

\* OrderCancelRequest.to_dict: asdict(self), one key per field
cancel_to_dict(self) ==
    [ order_id |-> self.order_id, cancel_type |-> self.cancel_type,
      contract_code |-> self.contract_code, portfolio_id |-> self.portfolio_id ]

\* OrderCancelRequest.from_dict: the cancel type is read from the key "type"
cancel_from_dict(data) ==
    [ order_id |-> Get(data, "order_id", ""),
      cancel_type |-> Get(data, "type", "order_id"),
      contract_code |-> Get(data, "contract_code", ""),
      portfolio_id |-> Get(data, "portfolio_id", "") ]

IsSubmit(r) == "symbol" \in DOMAIN r

\* the request is turned into its dictionary and the dictionary into a request
RoundTrip ==
    /\ codec_result = NotYet
    /\ codec_result' = IF IsSubmit(codec_request)
                       THEN submit_from_dict(submit_to_dict(codec_request))
                       ELSE cancel_from_dict(cancel_to_dict(codec_request))
    /\ UNCHANGED << now, coreVars, notCodec, codec_request >>

InitCodec ==
    /\ now \in { sessions[1].start }
    /\ InitSubmitVars /\ InitBusVars /\ InitWorkerVars /\ InitLegacyVars
    /\ InitSplitVars /\ InitReconVars /\ InitMonVars /\ InitHandlerVars
    /\ InitConsumerVars /\ InitCancelVars /\ InitExt3Vars
    /\ codec_request \in OrderSubmitRequests \cup OrderCancelRequests
    /\ codec_result = NotYet

NextCodec == RoundTrip

SpecCodec == InitCodec /\ [][NextCodec]_vars

(***************************************************************************)
(* Position monitor: PositionMonitor.start and _check_position_updates.    *)
(* The dicts are functions on the symbols they hold.                       *)
(***************************************************************************)
\* the position objects of the session's live view
LivePositions ==
    { [ pos_long |-> a, pos_short |-> b, pos_long_today |-> a, pos_long_his |-> 0,
        pos_short_today |-> b, pos_short_his |-> 0 ] :
        a \in 0..MaxNet, b \in 0..MaxNet }

\* api.get_position() after a drain
LiveViews == UNION { [ S -> LivePositions ] : S \in SUBSET Symbols }

\* dict.get(key, default)
GetOr(dict, key, default) == IF key \in DOMAIN dict THEN dict[key] ELSE default

RECURSIVE Flatten(_, _)
Flatten(f, order) ==
    IF order = << >> THEN << >> ELSE f[Head(order)] \o Flatten(f, Tail(order))

\* the update of a closed position (lines 82-93)
CloseUpdate(symbol) ==
    [ type |-> "POSITION_UPDATE", symbol |-> symbol, net_position |-> 0,
      breakdown |-> [ pos_long_today |-> 0, pos_long_his |-> 0,
                      pos_short_today |-> 0, pos_short_his |-> 0 ] ]

\* _check_position_updates: the updates handed to on_update, in order, and
\* the new previous_positions
check_position_updates(previous, positions) ==
    LET current_positions ==
            [ symbol \in DOMAIN positions |->
                positions[symbol].pos_long - positions[symbol].pos_short ]
        changed ==
            [ symbol \in DOMAIN positions |->
                IF current_positions[symbol] # GetOr(previous, symbol, 0)
                THEN << [ type |-> "POSITION_UPDATE", symbol |-> symbol,
                          net_position |-> current_positions[symbol],
                          breakdown |->
                            [ pos_long_today |-> positions[symbol].pos_long_today,
                              pos_long_his |-> positions[symbol].pos_long_his,
                              pos_short_today |-> positions[symbol].pos_short_today,
                              pos_short_his |-> positions[symbol].pos_short_his ] ] >>
                ELSE << >> ]
        became_zero ==
            [ symbol \in DOMAIN previous |->
                IF /\ symbol \notin DOMAIN current_positions
                      \/ current_positions[symbol] = 0
                   /\ GetOr(previous, symbol, 0) # 0
                THEN << CloseUpdate(symbol) >>
                ELSE << >> ]
    IN [ updates |-> Flatten(changed, SetToSeq(DOMAIN positions))
                     \o Flatten(became_zero, SetToSeq(DOMAIN previous)),
         previous_positions |-> current_positions ]

\* one pass of the loop of start(): the drain returns with a new live view
\* and the check runs on it
PositionMonitorPass ==
    \E positions \in LiveViews :
        LET res == check_position_updates(previous_positions, positions)
        IN /\ pos_before' = pos_live
           /\ pos_live' = positions
           /\ previous_positions' = res.previous_positions
           /\ pos_updates' = res.updates
           /\ UNCHANGED << now, coreVars, notPos >>

InitPosMon ==
    /\ now \in { sessions[1].start }
    /\ InitSubmitVars /\ InitBusVars /\ InitWorkerVars /\ InitLegacyVars
    /\ InitExtVars

NextPosMon == PositionMonitorPass

SpecPosMon == InitPosMon /\ [][NextPosMon]_vars

(***************************************************************************)
(* Account monitor: AccountMonitor.start and _check_account_updates.       *)
(* Amounts are counted in units of 0.01, the threshold of _account_changed.*)
(***************************************************************************)
Abs(x) == IF x < 0 THEN -x ELSE x

\* _account_changed(current): a compared field moved by more than 0.01
account_changed(previous, current) ==
    IF previous = NoAccount THEN TRUE
    ELSE \E key \in AccountKeys : Abs(previous[key] - current[key]) > 1

\* _check_account_updates: the update handed to on_update, NoAccount when
\* there is none, and the new previous_account
check_account_updates(previous, current_account) ==
    [ update |-> IF previous = NoAccount \/ account_changed(previous, current_account)
                 THEN current_account ELSE NoAccount,
      previous_account |-> current_account ]

\* one pass of the loop of start(): the drain returns, one field of the
\* account having moved or none, and the check runs
AccountMonitorPass ==
    \E key \in AccountKeys, amount \in 0..MaxAmount :
        LET current == [ account EXCEPT ![key] = amount ]
            res == check_account_updates(previous_account, current)
        IN /\ account' = current
           /\ previous_account' = res.previous_account
           /\ account_update' = IF res.update = NoAccount THEN account_update
                                 ELSE res.update
           /\ UNCHANGED << now, coreVars, notAcct >>

InitAcctMon ==
    /\ now \in { sessions[1].start }
    /\ InitSubmitVars /\ InitBusVars /\ InitWorkerVars /\ InitLegacyVars
    /\ InitExtVars

NextAcctMon == AccountMonitorPass

SpecAcctMon == InitAcctMon /\ [][NextAcctMon]_vars

(***************************************************************************)
(* Properties.                                                             *)
(***************************************************************************)
Range(f) == { f[i] : i \in DOMAIN f }

\* position of a message in a history
PositionIn(history, id) == CHOOSE i \in DOMAIN history : history[i] = id

\* C1: in the Worker Loop every drain leaves the timeout counter at 0 when it
\* succeeded, one higher when it failed during trading hours, unchanged when
\* it failed outside trading hours; the fatal condition is raised at a drain
\* exactly when the counter then exceeds block_counter_max.
C1_TimeoutCounter ==
    [][ drains' = drains + 1 =>
          /\ (block_res' => block_counter' = 0)
          /\ (~block_res' /\ in_trading_time(now) =>
                 block_counter' = block_counter + 1)
          /\ (~block_res' /\ ~in_trading_time(now) =>
                 block_counter' = block_counter)
          /\ (fatal' <=> block_counter' > block_counter_max) ]_vars

\* a successful drain has reset a counter that two failing drains had raised
C1_Witness ==
    /\ drains = 3 /\ warnings = 2 /\ block_res /\ block_counter = 0

\* C2 as the specification states it: once the first three drains have all
\* failed during trading hours (three warnings) the fatal condition has been
\* raised and the loop has ended.
C2_FatalAfterThird ==
    (drains = 3 /\ warnings = 3) => (fatal /\ wpc \in { "cleanup", "close", "done" })

\* C2 as the code has it: the fatal condition is raised right after the
\* fourth failing trading-hours drain that the counter holds, not the third.
\* After three failures in a row, with three warnings logged, no fatal
\* condition has been raised; when the fatal condition is raised at least four warnings
\* have been logged, the loop has ended, and from then on no drain is started
\* and no hand-off message is dispatched.
C2_FatalAfterFourth ==
    /\ [] ( /\ (drains = 3 /\ warnings = 3) => ~fatal
            /\ (drains = 4 /\ warnings = 4) => fatal
            /\ fatal => ( /\ warnings >= block_counter_max + 1
                          /\ block_counter = block_counter_max + 1
                          /\ wpc \in { "cleanup", "close", "done" } ) )
    /\ [][ fatal => (drains' = drains /\ dispatched' = dispatched) ]_vars

\* four drains, each failing during trading hours, and the fatal condition
C2_Witness ==
    /\ fatal /\ drains = 4 /\ warnings = 4

\* C3: every call made on a broker session is made by the thread that
\* created the session.
C3_SessionConfined ==
    \A c \in api_calls : c.thread = api_creator

\* C4: for every order_id the Submitter sends to the broker, the row of the
\* order was in the orders table when the broker insert_order call was made.
C4_RowBeforeBrokerCall ==
    \A i \in DOMAIN lastCalls : lastCalls[i].row_inserted

\* the check the specification demands before a broker call, on the facts
\* recorded with the call
CheckHeld(c) ==
    /\ c.had_timestamp
    /\ c.age <= ORDER_EXPIRE_ALLOW_MAX
    /\ \E s \in DOMAIN sessions :
          /\ sessions[s].start <= c.tod /\ c.tod <= sessions[s].end
          /\ sessions[s].end - c.tod >= SESSION_END_BUFFER_SECONDS

\* C5: every broker insert_order call of the Submitter was preceded, for the
\* same request, by a check at which the request carried a timestamp, was at
\* most ORDER_EXPIRE_ALLOW_MAX seconds old and the time of day lay in a
\* session with at least SESSION_END_BUFFER_SECONDS remaining (so a request
\* failing the check makes no call); no request leaves a row in the orders
\* table without having passed the check.
C5_CheckedBeforeBroker ==
    /\ \A i \in DOMAIN lastCalls : CheckHeld(lastCalls[i])
    /\ \A oid \in OrderIds :
          (insertCount[oid] = 0) => oid \notin orders_table

\* a request as old as allowed reached the broker 16 s before a session end
C5_Witness ==
    \E i \in DOMAIN lastCalls :
       /\ lastCalls[i].age = ORDER_EXPIRE_ALLOW_MAX
       /\ lastCalls[i].tod = sessions[1].end - SESSION_END_BUFFER_SECONDS - 1

\* C6: a message whose handler's broker call raised has been negatively
\* acknowledged without requeue.
C6_BrokerErrorRejected ==
    \A id \in DOMAIN handled :
       handled[id] = "raised" => settle[id] = "reject"

\* C7: a message the Bus Loop has positively acknowledged was placed on the
\* hand-off queue before.
C7_AckOnlyAfterHandOff ==
    \A id \in DOMAIN settle :
       settle[id] = "ack" => id \in Range(enqueued)

\* C8: the hand-off queue never holds more than QueueMaxSize messages; a
\* decoded message arriving while it holds QueueMaxSize is not added, the
\* queue keeps its content, the Bus Loop goes on to answer the message (it
\* does not wait for room), and the answer is a reject without requeue.
C8_Backpressure ==
    /\ [] (Len(message_queue) <= QueueMaxSize)
    /\ [][ ( /\ delivered' = delivered + 1
             /\ body'[delivered'] = "json"
             /\ Len(message_queue) = QueueMaxSize )
           => ( /\ message_queue' = message_queue
                /\ enqueued' = enqueued
                /\ bcur' = [ id |-> delivered', put |-> "full" ]
                /\ bpc' = "settle" ) ]_vars
    /\ [][ (bpc = "settle" /\ bcur.put = "full" /\ bpc' # "settle")
           => settle' = [ settle EXCEPT ![bcur.id] = "reject" ] ]_vars
    /\ [] (\A id \in DOMAIN settle :
             (settle[id] = "reject" => id \notin Range(enqueued)))

\* a message that arrived while the queue was full has been rejected
C8_Witness ==
    /\ Len(message_queue) = QueueMaxSize
    /\ \E id \in DOMAIN settle : settle[id] = "reject" /\ body[id] = "json"

\* C9: of any two dispatched messages, the one enqueued first was dispatched
\* first; what was enqueued is what was dispatched followed by what waits.
C9_Fifo ==
    /\ enqueued = dispatched \o message_queue
    /\ \A i, j \in DOMAIN dispatched :
          i < j => PositionIn(enqueued, dispatched[i]) < PositionIn(enqueued, dispatched[j])

\* two messages have been dispatched
C9_Witness ==
    Len(dispatched) >= 2

\* C10: a message whose body is not valid JSON is never positively
\* acknowledged, never on the hand-off queue and never handled; the
\* blocking consumer answers it with a nack without requeue.
C10_BadJsonRejected ==
    /\ \A id \in DOMAIN settle :
          body[id] = "badjson" =>
             /\ settle[id] \in { "none", "reject" }
             /\ id \notin Range(enqueued)
             /\ id \notin DOMAIN handled
    /\ \A a \in settled :
          (a.badjson /\ a.verdict # "nack_requeue") => a.verdict = "nack"

\* C11: a SUBMIT all of whose orders passed every check and saw no exception
\* from the broker call and the drains around it is positively acknowledged.
C11_SuccessAcked ==
    \A a \in settled :
       (a.orders >= 1 /\ a.clean = a.orders) => a.verdict = "ack"

\* the side of the position a request closes: SELL the long side, BUY the
\* short side
TodayQty(r, p) == IF r.direction = "SELL" THEN p.pos_long_today ELSE p.pos_short_today
HisQty(r, p) == IF r.direction = "SELL" THEN p.pos_long_his ELSE p.pos_short_his

\* the two children the specification names
CloseTodayChild(r, p) ==
    [ r EXCEPT !.offset = "CLOSETODAY", !.volume = Min(TodayQty(r, p), r.volume),
               !.order_id.suffix = "_closetoday" ]
CloseChild(r, p) ==
    [ r EXCEPT !.offset = "CLOSE",
               !.volume = Min(HisQty(r, p), r.volume - Min(TodayQty(r, p), r.volume)),
               !.order_id.suffix = "_close" ]

SplitApplies == split_request.offset = "CLOSE" /\ ExchangeOf(split_request.symbol) \in { "SHFE", "INE" }

SumVolumes(orders) ==
    IF Len(orders) = 1 THEN orders[1].volume ELSE orders[1].volume + orders[2].volume

\* C12 as stated: a CLOSE on SHFE/INE with a cached position always comes
\* back as the CLOSETODAY child followed by the CLOSE child; every other
\* request comes back unchanged as the only element.
C12_TwoChildren ==
    split_orders # NotYet =>
       IF SplitApplies /\ split_position # NoPosition
       THEN split_orders = << CloseTodayChild(split_request, split_position),
                              CloseChild(split_request, split_position) >>
       ELSE split_orders = << split_request >>

\* C12 as the code has it: a CLOSE on SHFE/INE with a cached position comes
\* back as up to two children, the CLOSETODAY child (present when today_qty
\* > 0) before the CLOSE child (present when his_qty > 0 and volume remains),
\* with the stated volumes and ids; when neither is present the original
\* request comes back unchanged, as it does with no cached position and for
\* any other offset or exchange.  The volumes returned sum to at most the
\* parent volume.
C12_UpToTwoChildren ==
    split_orders # NotYet =>
       /\ IF SplitApplies /\ split_position # NoPosition
          THEN LET ct == CloseTodayChild(split_request, split_position)
                   cl == CloseChild(split_request, split_position)
                   children == (IF ct.volume > 0 THEN << ct >> ELSE << >>)
                               \o (IF cl.volume > 0 THEN << cl >> ELSE << >>)
               IN split_orders = IF children = << >> THEN << split_request >>
                                 ELSE children
          ELSE split_orders = << split_request >>
       /\ SumVolumes(split_orders) <= split_request.volume

\* a request of two lots split into a CLOSETODAY child and a CLOSE child of
\* one lot each
C12_Witness ==
    /\ split_orders # NotYet
    /\ Len(split_orders) = 2
    /\ split_request.volume = 2
    /\ split_orders[1].offset = "CLOSETODAY" /\ split_orders[1].volume = 1
    /\ split_orders[2].offset = "CLOSE" /\ split_orders[2].volume = 1

\* a cycle has made its last call and is about to return
CycleCompleted == recon_pc = "read" /\ recon_todo = << >>

\* C13: in a cycle, a broker symbol with no cached value gets the broker
\* snapshot written, one whose cached value equals the broker's keeps its
\* value and gets its TTL refreshed, any other is overwritten with the
\* broker's value; after a completed cycle the cached position of every
\* broker symbol equals the broker's position.
C13_CacheEqualsBroker ==
    /\ [](CycleCompleted =>
            \A s \in DOMAIN tq_positions :
               cached_position(redis_cache, s, wall_clock)
                  = from_tqsdk_position(tq_positions[s]))
    /\ [][ (recon_pc \in { "write", "write_late" } /\ recon_pc' = "read"
             /\ Head(recon_todo).call = "reconcile") =>
           LET s == Head(recon_todo).symbol
               tq_position == from_tqsdk_position(tq_positions[s])
               fresh == [ value |-> tq_position,
                          expires |-> wall_clock + POSITION_TTL ]
           IN IF redis_position = NoPosition THEN redis_cache'[s] = fresh
              ELSE IF equals(tq_position, redis_position)
              THEN redis_cache'[s] = [ value |-> redis_cache[s].value,
                                       expires |-> wall_clock + POSITION_TTL ]
              ELSE redis_cache'[s] = fresh ]_vars

\* C14: while the reconciler loop runs, the cache entry of a universe symbol
\* that has been written holds a value at every moment.
C14_NeverExpires ==
    (recon_running /\ recon_pc # "stopped") =>
       \A s \in ever_written : Present(redis_cache, s, wall_clock)

\* C15: a cycle starts only when at least POSITION_LOOP_INTERVAL_SECONDS have
\* passed since the start of the previous completed cycle, and an iteration
\* of the loop has called wait_update exactly once when it ends, whether it
\* ran a cycle or skipped it.
C15_IntervalGated ==
    [][ /\ (recon_pc = "gate" /\ recon_pc' = "cycle" /\ completed_start # NoneValue)
              => wall_clock - completed_start >= POSITION_LOOP_INTERVAL_SECONDS
        /\ (recon_pc \in { "gate", "read", "sleep" } /\ recon_pc' = "drain")
              => iter_drains = 1
        /\ iter_drains' <= 1 ]_vars

\* a second cycle is starting after a completed one, and an iteration in
\* between skipped its cycle
C15_Witness ==
    /\ recon_pc = "cycle"
    /\ completed_start # NoneValue
    /\ iter_drains = 1
    /\ wall_clock - completed_start > POSITION_LOOP_INTERVAL_SECONDS

\* C16: on a tick the Order Monitor emits an event for an order exactly when
\* the order is absent from the previous-snapshot map or differs from its
\* previous snapshot in one of the five fields; after the tick the previous
\* snapshot of every order with an event is its current projection, and that
\* of every other order is as it was.
C16_EventIffChanged ==
    [][ (mon_pc = "check" /\ mon_pc' = "legacy_check") =>
          \A id \in MonOrderIds :
             LET order == tq_orders[id]
                 prev == previous_orders[id]
                 has_event == \E e \in mon_events' : e.order_id = id
             IN IF order = NoOrder THEN ~has_event
                ELSE /\ has_event <=>
                          \/ prev = NoOrder
                          \/ prev.status # order.status
                          \/ prev.volume_left # order.volume_left
                          \/ prev.volume_orign # order.volume_orign
                          \/ prev.exchange_order_id # order.exchange_order_id
                          \/ prev.exchange_id # order.exchange_id
                     /\ has_event =>
                          previous_orders'[id] =
                             [ status |-> order.status, volume_left |-> order.volume_left,
                               volume_orign |-> order.volume_orign,
                               exchange_order_id |-> order.exchange_order_id,
                               exchange_id |-> order.exchange_id ]
                     /\ ~has_event => previous_orders'[id] = prev ]_vars

\* a tick has emitted an event for an order whose only change is its
\* exchange_order_id, and none for another order that is unchanged
C16_Witness ==
    /\ mon_pc = "legacy_check"
    /\ \E e \in mon_events : e.order_id = "o1"
    /\ ~ \E e \in mon_events : e.order_id = "o2"
    /\ tq_orders["o2"] # NoOrder
    /\ tq_orders["o1"].exchange_order_id = "X1"
    /\ legacy_previous_orders["o1"] # NoOrder
    /\ legacy_previous_orders["o1"].status = tq_orders["o1"].status
    /\ legacy_previous_orders["o1"].volume_left = tq_orders["o1"].volume_left

EventTypeOf(e) ==
    IF e.status = "ALIVE"
    THEN IF e.volume_left = e.volume_orign THEN "NEW" ELSE "PARTIAL_FILL"
    ELSE IF e.volume_left = 0 THEN "COMPLETE_FILL" ELSE "CANCELED"

\* C17: every order event carries the type of the classification table: NEW
\* for ALIVE with nothing filled, PARTIAL_FILL for ALIVE with less left,
\* COMPLETE_FILL for FINISHED with nothing left, CANCELED for FINISHED with
\* volume left.
C17_EventTypeTable ==
    \A e \in mon_events \cup legacy_events : e.event_type = EventTypeOf(e)

C20_TradeDedup ==
    /\ [](\A i, j \in 1..Len(trade_history) :
             trade_history[i].trade_id = trade_history[j].trade_id => i = j)
    /\ [][ /\ Len(trade_history') >= Len(trade_history)
           /\ \A i \in 1..Len(trade_history) : trade_history'[i] = trade_history[i]
       ]_vars

\* both trades are stored, t1 at the price first delivered, and an update
\* has carried a trade that was already stored
\* C21: whenever a Handler's persistence write fails (the SQL UPDATE of
\* the order handler, the cache write of the account or position handler),
\* the bus is answered with a negative acknowledgement that requeues the
\* message, so the message is back on the queue for another delivery.
C21_WriteFailureRequeued ==
    \A i \in 1..Len(hlog) :
       hlog[i].write_failed => hlog[i].verdict = "nack_requeue"

C20_Witness ==
    /\ redelivered
    /\ Len(trade_history) = 2
    /\ trade_history[1].trade_id = "t1" /\ trade_history[1].price = 3500
    /\ trade_history[2].trade_id = "t2"

\* the last return was that of a CANCEL of type order_id naming an order
ReturnedCancelById ==
    /\ can_ret # NoCancel
    /\ can_ret.msg.action = "CANCEL"
    /\ can_ret.msg.type = "order_id"
    /\ can_ret.msg.order_id # ""

\* C22: a CANCEL of type order_id whose order is absent from the session's
\* order view, or present with a status other than ALIVE, returns success
\* (is acknowledged) and makes no cancel_order call.
C22_AbsentOrDeadAcked ==
    ReturnedCancelById /\ ~IsAlive(can_ret.seen, can_ret.msg.order_id)
       => can_ret.ret = "True" /\ can_ret.calls = << >>

\* C23: cancel_all calls cancel_order for every order that was ALIVE when
\* it scanned the view and reports success whatever happened to them, and
\* it always returns: a wait on one order ends, also when the broker keeps
\* the order ALIVE and sends nothing more.
C23_CancelAllTerminates ==
    /\ [](can_ret # NoCancel /\ can_ret.msg.action = "CANCEL"
             /\ can_ret.msg.type = "all"
           => /\ can_ret.ret = "True"
              /\ \A id \in MonOrderIds :
                    IsAlive(can_ret.seen, id)
                       => \E i \in 1..Len(can_ret.calls) : can_ret.calls[i] = id)
    /\ (can_pc = "wait_all") ~> (can_pc = "idle")

\* C28: every wait_update call of the session-owning worker, those of the
\* handlers included, is made with a deadline.
C28_EveryDrainHasDeadline ==
    can_drain # NoDrain => can_drain.deadline

\* C30 as claimed: a CANCEL of type order_id for an ALIVE order has called
\* cancel_order exactly once when it returns, and the order is no longer
\* ALIVE then.
C30_ReturnsOnlyWhenNotAlive ==
    ReturnedCancelById /\ IsAlive(can_ret.seen, can_ret.msg.order_id)
       => /\ can_ret.calls = << can_ret.msg.order_id >>
          /\ ~IsAlive(can_ret.view, can_ret.msg.order_id)

\* C30 (amended): a CANCEL of type order_id for an ALIVE order has called
\* cancel_order exactly once when it returns; it returns success only when
\* the order is no longer ALIVE, and failure only when cancel_order or a
\* drain raised; once the broker has moved the order out of ALIVE the
\* handler returns; and while it waits no other message is dispatched.
C30_SuccessOnlyWhenNotAlive ==
    /\ [](ReturnedCancelById /\ IsAlive(can_ret.seen, can_ret.msg.order_id)
           => /\ can_ret.calls = << can_ret.msg.order_id >>
              /\ can_ret.ret = "True"
                    => ~IsAlive(can_ret.view, can_ret.msg.order_id)
              /\ can_ret.ret = "False" => can_ret.raised)
    /\ (can_pc = "wait_one" /\ ~IsAlive(exch_orders, can_cur))
          ~> (can_pc = "idle")
    /\ [][can_pc = "wait_one" => can_count' = can_count]_vars

C30_Witness ==
    /\ ReturnedCancelById
    /\ IsAlive(can_ret.seen, can_ret.msg.order_id)
    /\ can_ret.ret = "True"
    /\ can_ret.calls = << can_ret.msg.order_id >>
    /\ can_ret.view[can_ret.msg.order_id] = [ status |-> "FINISHED" ]

\* the worker had a session of its own when it started to shut down
SessionExisted == start_outcome \in { "ok", "session_lost", "init_raised" }

\* C24: once the worker thread has ended while the heartbeat task runs,
\* shutdown_event is eventually set, and once it is set the consumer task
\* and the heartbeat task stop and the async context ends.
C24_WorkerDeathShutsDown ==
    /\ (wpc = "done" /\ hpc = "running") ~> shutdown_event
    /\ shutdown_event ~> (bpc = "stopped" /\ hpc = "stopped" /\ apc # "waiting")

C24_Witness ==
    /\ wpc = "done" /\ ~signalled
    /\ shutdown_event /\ bpc = "stopped" /\ hpc = "stopped" /\ apc = "ended"

\* C25: once worker_running is cleared the Worker Loop starts no drain and
\* dispatches only from the poll that follows the drain in progress; and
\* on every exit path of a worker whose session existed the session is
\* closed exactly once, after cleanup_worker_resources.
C25_ExitClosesSession ==
    /\ [][~worker_running
            => /\ drains' = drains
               /\ dispatched' # dispatched => wpc = "poll"]_vars
    /\ [][closes' # closes => cleaned]_vars
    /\ [](wpc = "done" /\ SessionExisted => closes = 1 /\ open_sessions = 0)

\* C26: the process exits with a status other than 0 when the worker
\* stopped on the liveness condition or the session could not be created,
\* and with 0 after a shutdown that a signal started.
C26_ExitStatus ==
    exit_status # NoneValue
       => /\ fatal \/ start_outcome \in { "no_session", "session_lost" }
               => exit_status # 0
          /\ signalled /\ ~fatal /\ start_outcome = "ok" => exit_status = 0

\* C27: for every order request, submit or cancel, with any value of each
\* field, from_dict(to_dict(r)) equals r in every field.
C27_RoundTrip ==
    codec_result # NotYet => codec_result = codec_request

\* C29: within one SUBMIT message no insert_order call is made after a
\* stage has failed: when the insert_order of one child raised, no call for
\* a later child follows it; so a failed CLOSETODAY child keeps the CLOSE
\* child from the broker.
C29_NoCallAfterFailure ==
    \A i \in 1..Len(lastCalls) : lastCalls[i].raised => i = Len(lastCalls)

\* net position of a symbol in a live view, 0 for a symbol it does not show
NetIn(view, symbol) ==
    IF symbol \in DOMAIN view
    THEN view[symbol].pos_long - view[symbol].pos_short
    ELSE 0

CloseCount(symbol) ==
    Cardinality({ i \in 1..Len(pos_updates) : pos_updates[i] = CloseUpdate(symbol) })

\* C31: on a tick where a symbol that had a non-zero net position at the
\* previous tick is gone from the live view or has net position 0, the
\* position monitor hands on exactly one zero/close update for the symbol;
\* on a tick where it was already gone or zero and still is, it hands on none
C31_OneCloseUpdate ==
    \A symbol \in Symbols :
        NetIn(pos_live, symbol) = 0 =>
            CloseCount(symbol) = IF NetIn(pos_before, symbol) # 0 THEN 1 ELSE 0

\* C32: two updates of one order row leave the same status and the same
\* filled_quantity in the row whichever of the two the Order Handler applies
\* first: the row after the first two updates it applied equals the row the
\* same two updates give, from the row as it was created, in the other order
C32_OrderOfUpdates ==
    [][ order_event = 1 /\ order_event' = 2 =>
          order_history' =
             process_order_update(
                process_order_update([ status |-> "ALIVE", filled_quantity |-> 0 ],
                                     last_order_data'),
                last_order_data) ]_vars

\* C33: when a reconciliation cycle has completed, the cache holds for every
\* universe symbol that is not among the broker's positions the zero
\* position, with a TTL set during the cycle
C33_AbsentSymbolsZero ==
    CycleCompleted =>
       \A s \in Symbols \ DOMAIN tq_positions :
          /\ Present(redis_cache, s, wall_clock)
          /\ redis_cache[s].value = zero
          /\ redis_cache[s].expires >= cycle_started + POSITION_TTL

\* C34: the blocking consumer gives every delivery one answer: ack when the
\* callback returned a true value, nack without requeue when it returned a
\* false one, nack with requeue when it raised, and nack with requeue
\* without calling the callback when the consumer had been stopped; a
\* message answered with requeue is back on the queue, any other is gone
C34_OneAnswer ==
    /\ [](\A i \in 1..Len(hlog) :
             LET d == hlog[i] IN
             /\ d.verdict \in { "ack", "nack", "nack_requeue" }
             /\ d.outcome = "True" => d.verdict = "ack"
             /\ d.outcome = "False" => d.verdict = "nack"
             /\ d.outcome = "raised" => d.verdict = "nack_requeue"
             /\ ~d.running => d.verdict = "nack_requeue" /\ d.outcome = "not_called")
    /\ [][ Len(hlog') = Len(hlog) + 1 =>
             LET d == hlog'[Len(hlog')] IN
             IF d.verdict = "nack_requeue"
             THEN Len(hq') = Len(hq) /\ hq'[Len(hq')] = Head(hq)
             ELSE hq' = Tail(hq) ]_vars

\* a callback raised and its message was requeued; the consumer was then
\* stopped and the redelivery was requeued without a call
C34_Witness ==
    /\ Len(hlog) = 2
    /\ hlog[1].outcome = "raised" /\ hlog[1].verdict = "nack_requeue"
    /\ ~hlog[2].running /\ hlog[2].verdict = "nack_requeue"

\* C35: every decoded message the Bus Loop has positively acknowledged is
\* dispatched to the handler in the end; the worker thread dispatches
\* nothing once it has ended, so when it has ended every such message has
\* been dispatched, also after the fatal condition or a shutdown
C35_AckedIsDispatched ==
    wpc = "done" =>
       \A id \in DOMAIN settle :
          (settle[id] = "ack" /\ body[id] = "json") => id \in Range(dispatched)

\* C36: when the Bus Loop has rejected a message because the hand-off queue
\* was full, it goes on to wait for the next message on the connection it
\* has: the connection stays up, and there is no backoff sleep and no
\* reconnect before the next delivery
C36_RejectKeepsConnection ==
    [][ (bpc = "settle" /\ bcur.put = "full" /\ bpc' # "settle") =>
           /\ heartbeat_alive' = heartbeat_alive
           /\ bpc' \in { "wait", "stopped" } ]_vars

\* C37: the Order Monitor advances the previous snapshot of an order only
\* when the update of that change has reached the bus, so that a change
\* whose publish failed is found, and published, again on a later tick
C37_AdvanceOnlyIfPublished ==
    [][ (mon_pc = "check" /\ mon_pc' = "legacy_check") =>
          \A id \in MonOrderIds :
             previous_orders'[id] # previous_orders[id] => id \notin mon_unpublished' ]_vars

\* C38 as stated: for a CLOSE on SHFE/INE with a cached position, the
\* volumes of the orders split_close_order returns sum to at most today_qty
\* + his_qty of the side being closed
C38_WithinClosable ==
    (split_orders # NotYet /\ SplitApplies /\ split_position # NoPosition) =>
       SumVolumes(split_orders)
          <= TodayQty(split_request, split_position) + HisQty(split_request, split_position)

\* C38 as the code has it: the volumes returned sum to at most today_qty +
\* his_qty when the side being closed holds a lot; when it holds none, the
\* original request comes back unchanged, with its whole volume
C38_WithinClosableOrUnsplit ==
    (split_orders # NotYet /\ SplitApplies /\ split_position # NoPosition) =>
       LET closable == TodayQty(split_request, split_position)
                       + HisQty(split_request, split_position)
       IN IF closable > 0
          THEN SumVolumes(split_orders) <= closable
          ELSE split_orders = << split_request >>

\* a request of two lots against a side holding one historical lot came
\* back as one order of one lot
C38_Witness ==
    /\ split_orders # NotYet /\ SplitApplies /\ split_position # NoPosition
    /\ split_request.volume = 2
    /\ TodayQty(split_request, split_position) = 0
    /\ HisQty(split_request, split_position) = 1
    /\ Len(split_orders) = 1 /\ split_orders[1].volume = 1

\* C39: after every tick of the Account Monitor, each of balance, available,
\* margin and position_profit of the update it published last is within
\* 0.01 of the live account
C39_PublishedNearLive ==
    previous_account # NoAccount =>
       \A key \in AccountKeys : Abs(account_update[key] - account[key]) <= 1

\* C40: when shutdown() has returned, the worker thread has ended and no
\* broker session is open, whatever the worker was doing when shutdown()
\* was called
C40_ShutdownJoinsWorker ==
    spc = "returned" => wpc = "done" /\ open_sessions = 0

====
